---- MODULE Spec2Model ----
(***************************************************************************)
(* A model of vispy's scene canvas (src/vispy/scene/canvas.py) and of the   *)
(* visual / view filter sharing (src/vispy/visuals/visual.py).              *)
(*                                                                         *)
(* Every handler of the canvas is one action; what a handler did (the      *)
(* draw() calls it issued, what it returned, the exception it raised) is   *)
(* recorded in the variable last, which the properties read.               *)
(***************************************************************************)
EXTENDS Integers, Sequences, FiniteSets, TLC

\* ------------------------------------------------------------------ bounds
NumNodes == 4        \* nodes that exist (node 1 is the SubScene made by __init__)
MaxDepth == 2        \* deepest viewport / framebuffer stack explored
MaxCoord == 1        \* viewport coordinates range over -MaxCoord..MaxCoord
MaxByte == 2         \* color bytes range over 0..MaxByte
NumFbos == 2         \* framebuffer objects that exist
NumObjs == 2         \* visuals and views that can be created
NumFilters == 2      \* filters that exist
MaxRadius == 2
MaxSegments == 2
MaxFilters == 2      \* longest filter list explored

None == 0
Nodes == 1..NumNodes
InitialScene == 1

VARIABLES scene, cc_conn, children, visible, draw_order,
          vp_stack, fb_stack, ctx, tconf, mouse_handler, pushes, last,
          vshare_of, visual_of, views, shared_filters, own_filters, attached,
          class_of, transforms_of, subvisuals, sub_visible,
          in_pass, blocked, ellipse, canvas_size

passVars == <<in_pass, blocked>>
ellipseVars == <<ellipse>>
sceneVars == <<scene, cc_conn, children, visible, draw_order>>
stackVars == <<vp_stack, fb_stack, ctx, tconf, pushes, canvas_size>>
visualVars == <<vshare_of, visual_of, views, shared_filters, own_filters,
                attached, class_of, transforms_of, subvisuals, sub_visible>>
vars == <<scene, cc_conn, children, visible, draw_order,
          vp_stack, fb_stack, ctx, tconf, mouse_handler, pushes, last,
          vshare_of, visual_of, views, shared_filters, own_filters, attached,
          class_of, transforms_of, subvisuals, sub_visible,
          in_pass, blocked, ellipse, canvas_size>>

\* ------------------------------------------------------- sequence helpers
RECURSIVE Flatten(_)
Flatten(ss) == IF ss = <<>> THEN <<>> ELSE Head(ss) \o Flatten(Tail(ss))

Range(s) == {s[i] : i \in 1..Len(s)}

Count(s, x) == Cardinality({i \in 1..Len(s) : s[i] = x})

Last(s) == s[Len(s)]

\* The element of a one-element set.  { e(x) : x \in {v} } names the value v
\* as x in e, and v is computed once.
Only(S) == CHOOSE x \in S : TRUE

Front(s) == SubSeq(s, 1, Len(s) - 1)

RemoveAt(s, i) == SubSeq(s, 1, i - 1) \o SubSeq(s, i + 1, Len(s))

IndexOf(s, x) == CHOOSE i \in 1..Len(s) : s[i] = x /\ \A j \in 1..(i - 1) : s[j] # x

\* ---------------------------------------------------------- the scene tree
\* The Node class is not among the sources: a node owns an ordered list of
\* children, has at most one parent, and the tree is acyclic (spec, section 3).
RECURSIVE Descendants(_, _)
Descendants(ch, n) ==
    Range(ch[n]) \cup UNION {Descendants(ch, c) : c \in Range(ch[n])}

ParentOf(ch, n) ==
    IF \E p \in Nodes : n \in Range(ch[p])
    THEN CHOOSE p \in Nodes : n \in Range(ch[p])
    ELSE None

Ancestors(ch, n) == {a \in Nodes : n \in Descendants(ch, a)}

\* ------------------------------------------------------------- draw order
\* A traversal that visits the children in reverse order.
RECURSIVE ReversedDrawOrder(_, _)
ReversedDrawOrder(ch, node) ==
    <<<<node, TRUE>>>>
    \o Flatten([i \in 1..Len(ch[node]) |->
                  ReversedDrawOrder(ch, ch[node][Len(ch[node]) + 1 - i])])
    \o <<<<node, FALSE>>>>

\* SceneCanvas._generate_draw_order(node): (node, True), the orders of the
\* children in child order, (node, False).
RECURSIVE _generate_draw_order(_, _)
_generate_draw_order(ch, node) ==
    <<<<node, TRUE>>>>
    \o Flatten([i \in 1..Len(ch[node]) |-> _generate_draw_order(ch, ch[node][i])])
    \o <<<<node, FALSE>>>>

\* line 269: hasattr(node, 'draw').  Every node of the model is a visual
\* mixed with Node, so it has a draw method.
HasDraw(node) == node \in Nodes

\* A walk in which the exit of any invisible node clears the barrier.
RECURSIVE WalkClearAny(_, _, _, _, _, _, _)
WalkClearAny(order, vis, i, stack, invisible_node, drawn, failNode) ==
    IF i > Len(order)
    THEN [drawn |-> drawn, stack |-> stack, invisible_node |-> invisible_node,
          raised |-> FALSE]
    ELSE LET node == order[i][1]
             start == order[i][2]
         IN  IF start
             THEN IF invisible_node = None
                  THEN IF ~vis[node]
                       THEN WalkClearAny(order, vis, i + 1, Append(stack, node),
                                      node, drawn, failNode)
                       ELSE IF HasDraw(node)
                            THEN IF node = failNode
                                 THEN [drawn |-> Append(drawn, node),
                                       stack |-> Append(stack, node),
                                       invisible_node |-> invisible_node,
                                       raised |-> TRUE]
                                 ELSE WalkClearAny(order, vis, i + 1,
                                                Append(stack, node),
                                                invisible_node,
                                                Append(drawn, node), failNode)
                            ELSE WalkClearAny(order, vis, i + 1,
                                           Append(stack, node),
                                           invisible_node, drawn, failNode)
                  ELSE WalkClearAny(order, vis, i + 1, Append(stack, node),
                                 invisible_node, drawn, failNode)
             ELSE WalkClearAny(order, vis, i + 1, Front(stack),
                            IF ~vis[node] THEN None
                            ELSE invisible_node,
                            drawn, failNode)

\* The loop of SceneCanvas.draw_visual over the order, from entry i on.
\* failNode is the node whose draw() raises (None: no draw raises).  The
\* result records the draw() calls made, the stack of open nodes, the
\* invisible barrier and whether the walk ended by an exception.
RECURSIVE WalkOrder(_, _, _, _, _, _, _)
WalkOrder(order, vis, i, stack, invisible_node, drawn, failNode) ==
    IF i > Len(order)
    THEN [drawn |-> drawn, stack |-> stack, invisible_node |-> invisible_node,
          raised |-> FALSE]
    ELSE LET node == order[i][1]
             start == order[i][2]
         IN  IF start
             THEN IF invisible_node = None
                  THEN IF ~vis[node]
                       THEN WalkOrder(order, vis, i + 1, Append(stack, node),
                                      node, drawn, failNode)
                       ELSE IF HasDraw(node)
                            THEN IF node = failNode
                                 THEN [drawn |-> Append(drawn, node),
                                       stack |-> Append(stack, node),
                                       invisible_node |-> invisible_node,
                                       raised |-> TRUE]
                                 ELSE WalkOrder(order, vis, i + 1,
                                                Append(stack, node),
                                                invisible_node,
                                                Append(drawn, node), failNode)
                            ELSE WalkOrder(order, vis, i + 1,
                                           Append(stack, node),
                                           invisible_node, drawn, failNode)
                  ELSE WalkOrder(order, vis, i + 1, Append(stack, node),
                                 invisible_node, drawn, failNode)
             ELSE WalkOrder(order, vis, i + 1, Front(stack),
                            IF node = invisible_node THEN None
                            ELSE invisible_node,
                            drawn, failNode)

NoOrder == <<>>
EmptyCache == [n \in Nodes |-> NoOrder]

\* SceneCanvas.draw_visual(visual) as a function of the canvas state: the
\* cache after the call, the draw() calls made and the exception raised.
\* Line 254 generates the order with no argument, that is from self._scene;
\* line 256 reads order[2], which does not exist for a root-only order.
draw_visual(sc, ch, vis, cache, visual, failNode) ==
    Only({
        IF Len(order) < 3
        THEN [cache |-> [cache EXCEPT ![visual] = order], drawn |-> <<>>,
              stack |-> <<>>, invisible_node |-> None,
              raised |-> "IndexError"]
        ELSE Only({
                [cache |-> [cache EXCEPT ![visual] = order],
                 drawn |-> w.drawn, stack |-> w.stack,
                 invisible_node |-> w.invisible_node,
                 raised |-> IF w.raised THEN "DrawError" ELSE "none"]
                : w \in {WalkOrder(order, vis, 1, <<>>, None, <<>>, failNode)} })
        : order \in {IF cache[visual] = NoOrder
                     THEN _generate_draw_order(ch, sc)
                     ELSE cache[visual]} })

\* ------------------------------------------------ viewports, framebuffers
NoVP == <<>>

\* The default size=(800, 600) of __init__ (line 113), with px_scale=1.
CanvasSize == <<800, 600>>
PhysicalSize == CanvasSize
FullViewport == <<0, 0, PhysicalSize[1], PhysicalSize[2]>>

\* A framebuffer object: its identity and color_buffer.shape = (h, w).
Fbos == {[id |-> i, shape |-> <<i, i + 1>>] : i \in 1..NumFbos}

\* The framebuffer render() allocates (lines 217-218): a new object whose
\* buffers have shape size[::-1].
RenderFbo(size) == [id |-> NumFbos + 1, shape |-> <<size[2], size[1]>>]

\* The canvas state the stack handlers work on: the two stacks, the
\* context (the viewport last set, the framebuffer now active), the last
\* TransformSystem.auto_configure arguments, the size of the canvas, and
\* the commands issued to the context by the running handler.
GLState(vps, fbs, c, t, sz) ==
    [vp_stack |-> vps, fb_stack |-> fbs, ctx |-> c, tconf |-> t, size |-> sz,
     cmds |-> <<>>]

\* The viewport of the canvas as it was constructed.
InitialViewport(g) == <<0, 0, 800, 600>>

\* (0, 0, *self.physical_size), lines 351 and 389.
PhysicalViewport(g) == <<0, 0, g.size[1], g.size[2]>>

Issue(g, cmd) == [g EXCEPT !.cmds = Append(@, cmd)]

\* A viewport whose negative width or height was negated without moving
\* the origin.
NormalizeKeepOrigin(viewport) ==
    <<viewport[1], viewport[2],
      IF viewport[3] < 0 THEN -viewport[3] ELSE viewport[3],
      IF viewport[4] < 0 THEN -viewport[4] ELSE viewport[4]>>

\* push_viewport, lines 363-370: normalize the viewport.
NormalizeViewport(viewport) ==
    LET vp1 == IF viewport[3] < 0
               THEN <<viewport[1] + viewport[3], viewport[2],
                      viewport[3] * (-1), viewport[4]>>
               ELSE viewport
    IN  IF vp1[4] < 0
        THEN <<vp1[1], vp1[2] + vp1[4], vp1[3], vp1[4] * (-1)>>
        ELSE vp1

\* Transforms that are left as they were configured.
KeepTransforms(g) == g

\* SceneCanvas._update_transforms
_update_transforms(g) ==
    LET fb_size == IF Len(g.fb_stack) = 0 THEN NoVP ELSE Last(g.fb_stack)[3]
        fb_rect == IF Len(g.fb_stack) = 0 THEN NoVP
                   ELSE Last(g.fb_stack)[2] \o Last(g.fb_stack)[3]
        viewport == IF Len(g.vp_stack) = 0 THEN NoVP ELSE Last(g.vp_stack)
    IN  [g EXCEPT !.tconf = [viewport |-> viewport, fbo_size |-> fb_size,
                             fbo_rect |-> fb_rect]]

\* A failed push that leaves its entry on the stack.
KeepEntry(stack) == stack

\* Lines 375-376 and 412-413: the except clause of a push pops the entry.
RollBack(stack) == Front(stack)

\* SceneCanvas.push_viewport; fail: context.set_viewport raises.
push_viewport(g, viewport, fail) ==
    Only({
        IF fail
        THEN [g |-> [g EXCEPT !.vp_stack = RollBack(Append(@, vp)),
                              !.cmds = Append(@, <<"set_viewport", vp>>)],
              raised |-> "ActivationError"]
        ELSE Only({ [g |-> _update_transforms(g1), raised |-> "none"]
                    : g1 \in {[g EXCEPT !.vp_stack = Append(@, vp),
                                        !.cmds = Append(@, <<"set_viewport", vp>>),
                                        !.ctx.viewport = vp]} })
        : vp \in {NormalizeViewport(viewport)} })

\* A pop that leaves the stack as it is.
PopNothing(stack) == stack

\* A pop that removes the oldest entry.
PopOldest(stack) == Tail(stack)

\* Lines 384 and 421: list.pop() removes the last entry.
PopEntry(stack) == Front(stack)

\* SceneCanvas.pop_viewport; list.pop() raises IndexError on an empty stack.
pop_viewport(g) ==
    IF Len(g.vp_stack) = 0
    THEN [g |-> g, raised |-> "IndexError", ret |-> NoVP]
    ELSE Only({
            Only({ [g |-> _update_transforms(g1), raised |-> "none",
                    ret |-> Last(g.vp_stack)]
                   : g1 \in {[g EXCEPT
                                !.vp_stack = st,
                                !.ctx.viewport =
                                    IF Len(st) > 0 THEN Last(st)
                                    ELSE PhysicalViewport(g),
                                !.cmds = Append(@, <<"set_viewport",
                                    IF Len(st) > 0 THEN Last(st)
                                    ELSE PhysicalViewport(g)>>)]} })
            : st \in {PopEntry(g.vp_stack)} })

\* SceneCanvas.push_fbo; failActivate: fbo.activate raises; failViewport:
\* the set_viewport of the layered push_viewport raises.
push_fbo(g, fbo, offset, csize, failActivate, failViewport) ==
    IF failActivate
    THEN [g |-> [g EXCEPT !.fb_stack = RollBack(Append(@, <<fbo, offset, csize>>)),
                          !.cmds = Append(@, <<"activate", fbo.id>>)],
          raised |-> "ActivationError"]
    ELSE Only({
            Only({
                IF r.raised # "none"
                THEN [g |-> [r.g EXCEPT !.fb_stack = RollBack(@)],
                      raised |-> r.raised]
                ELSE Only({ [g |-> _update_transforms(g3), raised |-> "none"]
                            : g3 \in {r.g} })
                : r \in {push_viewport(g2, <<0, 0, fbo.shape[2], fbo.shape[1]>>,
                                       failViewport)} })
            : g2 \in {[g EXCEPT !.fb_stack = Append(@, <<fbo, offset, csize>>),
                                !.cmds = Append(@, <<"activate", fbo.id>>),
                                !.ctx.fbo = fbo.id]} })

\* SceneCanvas.pop_fbo
pop_fbo(g) ==
    IF Len(g.fb_stack) = 0
    THEN [g |-> g, raised |-> "IndexError", ret |-> <<>>]
    ELSE Only({
            Only({
                IF r.raised # "none"
                THEN [g |-> r.g, raised |-> r.raised, ret |-> <<>>]
                ELSE Only({ [g |-> _update_transforms(g2), raised |-> "none",
                             ret |-> Last(g.fb_stack)]
                            : g2 \in {IF Len(r.g.fb_stack) > 0
                                      THEN [r.g EXCEPT
                                              !.ctx.fbo = Last(r.g.fb_stack)[1].id,
                                              !.cmds = Append(@, <<"activate",
                                                  Last(r.g.fb_stack)[1].id>>)]
                                      ELSE r.g} })
                : r \in {pop_viewport(g1)} })
            : g1 \in {[g EXCEPT !.fb_stack = PopEntry(@), !.ctx.fbo = None,
                                !.cmds = Append(@, <<"deactivate",
                                                    Last(g.fb_stack)[1].id>>)]} })

\* What the last handler did: the handler, its argument, the exception it
\* raised ("none": it returned), the draw() calls it made in order, what it
\* returned, whether it requested a redraw (self.update()), and the commands
\* it issued to the context.
LastCmd(op, arg, raised, drawn, ret, update, cmds) ==
    [op |-> op, arg |-> arg, raised |-> raised, drawn |-> drawn, ret |-> ret,
     update |-> update, cmds |-> cmds]

LastRec(op, arg, raised, drawn, ret, update) ==
    LastCmd(op, arg, raised, drawn, ret, update, <<>>)

\* ----------------------------------------------------------- scene actions
\* Nodes 1 and 2 are SubScene instances: 1 is the one made by __init__
\* (line 137), 2 is one the user may assign to canvas.scene (line 149).
\* The other nodes are visuals that are added to and removed from them.
OtherScene == 2
SubScenes == {InitialScene, OtherScene}

\* SceneCanvas._update_scenegraph: the cache after the handler ran.
_update_scenegraph(cache) == EmptyCache

\* Whether a children_change notification emitted by node p reaches the
\* canvas.  Node is not among the sources: the notification is emitted by p
\* and by every ancestor of p (spec, section 3: invalidated whenever the
\* scene tree's topology changes).  Line 139 connects the handler to the
\* SubScene made by __init__ only.
TopologyNotified(ch, p) == ({p} \cup Ancestors(ch, p)) \cap cc_conn # {}

\* Node: append child c to parent p.
AddChild(p, c) ==
    /\ p # c
    /\ ParentOf(children, c) = None
    /\ p \notin Descendants(children, c)
    /\ children' = [children EXCEPT ![p] = Append(@, c)]
    /\ draw_order' = IF TopologyNotified(children, p)
                     THEN _update_scenegraph(draw_order) ELSE draw_order
    /\ last' = LastRec("node", None, "none", <<>>, None,
                       TopologyNotified(children, p))
    /\ UNCHANGED <<scene, cc_conn, visible, mouse_handler>>
    /\ UNCHANGED stackVars
    /\ UNCHANGED visualVars
    /\ UNCHANGED passVars
    /\ UNCHANGED ellipseVars

\* Node: remove the i-th child of p.
RemoveChild(p, i) ==
    /\ i \in 1..Len(children[p])
    /\ children' = [children EXCEPT ![p] = RemoveAt(@, i)]
    /\ draw_order' = IF TopologyNotified(children, p)
                     THEN _update_scenegraph(draw_order) ELSE draw_order
    /\ last' = LastRec("node", None, "none", <<>>, None,
                       TopologyNotified(children, p))
    /\ UNCHANGED <<scene, cc_conn, visible, mouse_handler>>
    /\ UNCHANGED stackVars
    /\ UNCHANGED visualVars
    /\ UNCHANGED passVars
    /\ UNCHANGED ellipseVars

\* Whether the update notification of node e calls _scene_update: the
\* callback is connected to the scene (line 153) and is skipped while it is
\* blocked on that emitter (line 234).
Delivered(e) == e = scene /\ blocked # e

\* SceneCanvas._scene_update: the scene's update notification (a transform
\* or an appearance changed) requests a redraw of the canvas.
_scene_update ==
    /\ last' = LastRec("scene_update", None, "none", <<>>, None, Delivered(scene))
    /\ UNCHANGED <<scene, cc_conn, children, visible, draw_order, mouse_handler>>
    /\ UNCHANGED stackVars
    /\ UNCHANGED visualVars
    /\ UNCHANGED passVars
    /\ UNCHANGED ellipseVars

\* Node: the visible flag of n is toggled; the scene notifies an update.
SetVisible(n) ==
    /\ visible' = [visible EXCEPT ![n] = ~@]
    /\ last' = LastRec("scene_update", None, "none", <<>>, None, Delivered(scene))
    /\ UNCHANGED <<scene, cc_conn, children, draw_order, mouse_handler>>
    /\ UNCHANGED stackVars
    /\ UNCHANGED visualVars
    /\ UNCHANGED passVars
    /\ UNCHANGED ellipseVars

\* The scene setter (lines 148-153): the update notification is moved to
\* the new scene; children_change is connected by __init__ only.
SetScene(e) ==
    /\ e # scene
    /\ scene' = e
    /\ last' = LastRec("set_scene", e, "none", <<>>, None, FALSE)
    /\ UNCHANGED <<cc_conn, children, visible, draw_order, mouse_handler>>
    /\ UNCHANGED stackVars
    /\ UNCHANGED visualVars
    /\ UNCHANGED passVars
    /\ UNCHANGED ellipseVars

\* SceneCanvas.draw_visual(visual), called by the user.
DrawVisual(visual, failNode) ==
    \E r \in {draw_visual(scene, children, visible, draw_order, visual,
                            failNode)} :
        /\ draw_order' = r.cache
        /\ last' = LastCmd("draw_visual", visual, r.raised, r.drawn,
                           [stack |-> r.stack,
                            invisible_node |-> r.invisible_node],
                           FALSE, <<<<"set_current">>>>)
        /\ UNCHANGED <<scene, cc_conn, children, visible, mouse_handler>>
        /\ UNCHANGED stackVars
        /\ UNCHANGED visualVars
        /\ UNCHANGED passVars
        /\ UNCHANGED ellipseVars

\* ------------------------------------------------------ render and picking
NoRegion == <<>>

\* SceneCanvas.render(region, size) with _draw_scene inlined.  The inputs
\* besides the arguments: which activation fails in push_fbo, the node whose
\* draw() raises, whether fbo.read() raises, and the image it returns.
render(g, sc, ch, vis, cache, region, size, failActivate, failViewport, failNode, failRead, img) ==
    LET offset == IF region = NoRegion THEN <<0, 0>> ELSE SubSeq(region, 1, 2)
        csize == IF region = NoRegion THEN g.size ELSE SubSeq(region, 3, 4)
        sz == IF size = NoVP THEN csize ELSE size
    IN  Only({
            IF p.raised # "none"
            THEN [g |-> p.g, cache |-> cache, drawn |-> <<>>,
                  raised |-> p.raised, ret |-> <<>>]
            ELSE Only({
                    \* the finally clause: pop_fbo on every way out
                    Only({ [g |-> q.g, cache |-> d.cache, drawn |-> d.drawn,
                            raised |-> IF d.raised # "none" THEN d.raised
                                       ELSE IF failRead THEN "ReadError"
                                       ELSE q.raised,
                            ret |-> IF d.raised = "none" /\ ~failRead
                                       /\ q.raised = "none"
                                    THEN img ELSE <<>>]
                           : q \in {pop_fbo(
                                [p.g EXCEPT !.cmds =
                                    @ \o <<<<"clear">>, <<"set_current">>>>
                                      \o (IF d.raised = "none"
                                          THEN <<<<"read">>>> ELSE <<>>)])} })
                    : d \in {draw_visual(sc, ch, vis, cache, sc, failNode)} })
            : p \in {push_fbo(Issue(g, <<"set_current">>), RenderFbo(sz), offset,
                              csize, failActivate, failViewport)} })

\* Decoding the four bytes as a big-endian integer.
UnpackBigEndian(bytes) ==
    ((bytes[1] * 256 + bytes[2]) * 256 + bytes[3]) * 256 + bytes[4]

\* struct.unpack('<I', struct.pack('<4B', *bytes))[0], line 333: the bytes
\* are laid out in the order given and read as one unsigned 32-bit integer
\* whose least significant byte comes first.
RECURSIVE UnpackLittleEndian(_)
UnpackLittleEndian(bytes) ==
    IF bytes = <<>> THEN 0
    ELSE Head(bytes) + 256 * UnpackLittleEndian(Tail(bytes))

\* VisualNode._visual_ids (not among the sources): every visual is
\* registered under its own identifier, counted from 1; the SubScenes are not
\* visuals.
VisualIdOf(n) == n - OtherScene
Registered == Nodes \ SubScenes

\* VisualNode._visual_ids.get(id, None), line 335.
visual_ids_get(id) ==
    IF \E n \in Registered : VisualIdOf(n) = id
    THEN CHOOSE n \in Registered : VisualIdOf(n) = id
    ELSE None

\* A visual_at without the finally clause: the flag is reset only when the
\* render returned.
visual_at_unguarded(g, sc, ch, vis, cache, pos, failActivate, failViewport, failNode, failRead, pixel) ==
    Only({ IF r.raised # "none"
           THEN [g |-> r.g, cache |-> r.cache,
                 drawn |-> r.drawn, raised |-> r.raised, ret |-> None]
           ELSE Only({ [g |-> [r.g EXCEPT !.cmds = @ \o <<<<"picking", FALSE>>,
                                                         <<"print", id>>>>],
                        cache |-> r.cache, drawn |-> r.drawn,
                        raised |-> "none", ret |-> visual_ids_get(id)]
                       : id \in {UnpackLittleEndian(r.ret)} })
           : r \in {render(Issue(g, <<"picking", TRUE>>), sc, ch, vis, cache,
                           pos \o <<1, 1>>, NoVP, failActivate, failViewport,
                           failNode, failRead, pixel)} })

\* SceneCanvas.visual_at(pos); pos is the position mapped to the
\* framebuffer, pixel is img[0, 0] of the picking pass.
visual_at(g, sc, ch, vis, cache, pos, failActivate, failViewport, failNode, failRead, pixel) ==
    Only({ IF r.raised # "none"
           THEN [g |-> Issue(r.g, <<"picking", FALSE>>), cache |-> r.cache,
                 drawn |-> r.drawn, raised |-> r.raised, ret |-> None]
           ELSE Only({ [g |-> [r.g EXCEPT !.cmds = @ \o <<<<"picking", FALSE>>,
                                                         <<"print", id>>>>],
                        cache |-> r.cache, drawn |-> r.drawn,
                        raised |-> "none", ret |-> visual_ids_get(id)]
                       : id \in {UnpackLittleEndian(r.ret)} })
           : r \in {render(Issue(g, <<"picking", TRUE>>), sc, ch, vis, cache,
                           pos \o <<1, 1>>, NoVP, failActivate, failViewport,
                           failNode, failRead, pixel)} })

\* SceneCanvas._process_mouse_event(event): the canvas state after it, the
\* visual the SceneMouseEvent was made for (None: the handler returned
\* before making one) and the mouse handler it leaves.
_process_mouse_event(g, sc, ch, vis, cache, handler, type, pos, failActivate, failViewport, failNode, failRead, pixel) ==
    Only({
        IF v1.raised # "none"
        THEN \* line 298 raised
             [g |-> v1.g, cache |-> v1.cache, handler |-> handler,
              routed |-> None, raised |-> v1.raised, update |-> FALSE]
        ELSE IF handler = None
        THEN IF type = "mouse_press"
             THEN Only({
                    IF v2.raised # "none"
                    THEN [g |-> v2.g, cache |-> v2.cache, handler |-> handler,
                          routed |-> None, raised |-> v2.raised,
                          update |-> FALSE]
                    ELSE [g |-> v2.g, cache |-> v2.cache, handler |-> v2.ret,
                          routed |-> v2.ret, raised |-> "none",
                          update |-> v2.ret # None]
                    : v2 \in {visual_at(v1.g, sc, ch, vis,
                                        v1.cache, pos, failActivate,
                                        failViewport, failNode, failRead,
                                        pixel)} })
             ELSE [g |-> v1.g, cache |-> v1.cache, handler |-> None,
                   routed |-> None, raised |-> "none", update |-> FALSE]
        ELSE [g |-> v1.g, cache |-> v1.cache,
              handler |-> IF type = "mouse_release" THEN None ELSE handler,
              routed |-> handler, raised |-> "none", update |-> TRUE]
        : v1 \in {visual_at(g, sc, ch, vis, cache, pos, failActivate,
                            failViewport, failNode, failRead, pixel)} })

\* ------------------------------------------------------ visuals and views
\* Objs are the Visual and VisualView instances that can exist; a
\* VisualShare is named after the Visual that created it.  vshare_of[o] is
\* o._vshare (None while o does not exist), visual_of[o] is o._visual for a
\* view, views[s] are the keys of the weak dictionary s.views,
\* shared_filters[s] is s.filters, own_filters[o] is o._filters, and
\* attached[o] are the filters whose _attach(o) was called, in call order.
Objs == 1..NumObjs
Filters == 1..NumFilters

\* The objects of a compound visual and of a view of it come on top: with
\* each visual or view a sub-visual or a view of a sub-visual.  class_of[o] is
\* the class of o, transforms_of[o] names the TransformSystem o.transforms
\* (after the object that created it), subvisuals[o] is o._subvisuals and
\* sub_visible[o] is o.visible.
AllObjs == 1..(NumObjs + NumObjs)

VisualState(sh, vo, vs, sf, of, at, kd, tr, sv, vis) ==
    [vshare_of |-> sh, visual_of |-> vo, views |-> vs, shared_filters |-> sf,
     own_filters |-> of, attached |-> at, class_of |-> kd, transforms_of |-> tr,
     subvisuals |-> sv, sub_visible |-> vis, calls |-> <<>>]

\* filter._attach(view): the filter is applied to the view.
Filter_attach(st, filter, view) ==
    [st EXCEPT !.attached[view] = Append(@, filter),
               !.calls = Append(@, <<"_attach", filter, view>>)]

\* for view in order: filter._attach(view)
RECURSIVE AttachEach(_, _, _)
AttachEach(st, filter, order) ==
    IF order = <<>> THEN st
    ELSE AttachEach(Filter_attach(st, filter, Head(order)), filter, Tail(order))

\* for filter in filters: filter._attach(view)
RECURSIVE AttachAll(_, _, _)
AttachAll(st, filters, view) ==
    IF filters = <<>> THEN st
    ELSE AttachAll(Filter_attach(st, Head(filters), view), Tail(filters), view)

\* The orders in which the keys of a dictionary can be iterated.
KeyOrders(S) ==
    {q \in [1..Cardinality(S) -> S] :
        \A i \in 1..Cardinality(S), j \in 1..Cardinality(S) :
            i # j => q[i] # q[j]}

\* The orders a call iterates the views in; a call with a view does not
\* iterate.
IterationOrders(S, view) == IF view = None THEN KeyOrders(S) ELSE {<<>>}

\* Visual.__init__ without _vshare: a new VisualShare, in which the visual
\* registers itself.
Visual__init__(st, self) ==
    [st EXCEPT !.vshare_of[self] = self,
               !.visual_of[self] = None,
               !.views[self] = {self},
               !.shared_filters[self] = <<>>,
               !.own_filters[self] = <<>>,
               !.class_of[self] = "Visual",
               !.transforms_of[self] = self,
               !.calls = Append(@, <<"_prepare_transforms", self>>)]

\* A view that joins the share without attaching its filters.
VisualView_bare(st, self, visual) ==
    Only({ [st EXCEPT !.vshare_of[self] = sh,
                      !.visual_of[self] = visual,
                      !.views[sh] = @ \cup {self},
                      !.own_filters[self] = <<>>,
                      !.class_of[self] = "VisualView",
                      !.transforms_of[self] = self,
                      !.calls = Append(@, <<"_prepare_transforms", self>>)]
           : sh \in {st.vshare_of[visual]} })

\* VisualView.__init__: the view joins the share of the viewed visual and
\* the shared filters are attached to it.
VisualView__init__(st, self, visual) ==
    Only({ AttachAll([st EXCEPT !.vshare_of[self] = sh,
                                !.visual_of[self] = visual,
                                !.views[sh] = @ \cup {self},
                                !.own_filters[self] = <<>>,
                                !.class_of[self] = "VisualView",
                                !.transforms_of[self] = self,
                                !.calls = Append(@, <<"_prepare_transforms",
                                                     self>>)],
                     st.shared_filters[sh], self)
           : sh \in {st.vshare_of[visual]} })

\* ------------------------------------------------------- compound visuals
\* CompoundVisual.add_subvisual: the sub-visual gets the transforms of the
\* compound, its program inputs are rebound, it is visible unless it says
\* otherwise, and the compound asks for a redraw.
add_subvisual(st, self, visual) ==
    [st EXCEPT !.transforms_of[visual] = st.transforms_of[self],
               !.subvisuals[self] = Append(@, visual),
               !.calls = @ \o <<<<"_prepare_transforms", visual>>,
                                <<"update", self>>>>]

\* for v in subvisuals: self.add_subvisual(v)
RECURSIVE AddEach(_, _, _)
AddEach(st, self, subs) ==
    IF subs = <<>> THEN st
    ELSE AddEach(add_subvisual(st, self, Head(subs)), self, Tail(subs))

\* CompoundVisual.__init__(subvisuals).  BaseVisual.__init__(self) is
\* called without a vshare (line 436): the object gets a new VisualShare
\* and registers itself in it.
CompoundVisual__init__(st, self, subs) ==
    AddEach([st EXCEPT !.vshare_of[self] = self,
                       !.views[self] = {self},
                       !.shared_filters[self] = <<>>,
                       !.own_filters[self] = <<>>,
                       !.transforms_of[self] = self,
                       !.subvisuals[self] = <<>>],
            self, subs)

\* [v.view() for v in subs], the new views named by ids.
RECURSIVE ViewEach(_, _, _)
ViewEach(st, subs, ids) ==
    IF subs = <<>> THEN st
    ELSE ViewEach(VisualView__init__(st, Head(ids), Head(subs)),
                  Tail(subs), Tail(ids))

\* for filter in filters: for v in subs: filter._attach(v)
RECURSIVE AttachToSubs(_, _, _)
AttachToSubs(st, filters, subs) ==
    IF filters = <<>> THEN st
    ELSE AttachToSubs(AttachEach(st, Head(filters), subs), Tail(filters), subs)

\* CompoundVisualView.__init__(visual), lines 496-505.
CompoundVisualView__init__(st, self, visual, ids) ==
    Only({ AttachToSubs(st3, st3.shared_filters[st3.vshare_of[self]],
                        st3.subvisuals[self])
           : st3 \in {CompoundVisual__init__(
                         ViewEach([st EXCEPT !.visual_of[self] = visual,
                                             !.class_of[self] =
                                                 "CompoundVisualView"],
                                  st.subvisuals[visual], ids),
                         self, ids)} })

\* Whether visual._view_class is CompoundVisualView (line 435) rather than
\* VisualView (line 225).
IsCompound(st, visual) ==
    st.class_of[visual] \in {"CompoundVisual", "CompoundVisualView"}

\* BaseVisual.view: self._view_class(self), the new object being self_view
\* and the views it makes of the sub-visuals ids.
BaseVisual_view(st, self_view, visual, ids) ==
    IF IsCompound(st, visual)
    THEN CompoundVisualView__init__(st, self_view, visual, ids)
    ELSE VisualView__init__(st, self_view, visual)

\* An attach that treats every filter as shared.
attach_shared(st, self, filter, view, order) ==
    AttachEach([st EXCEPT !.shared_filters[st.vshare_of[self]] =
                              Append(@, filter)],
               filter, order)

\* Visual.attach; order is the iteration order of self._vshare.views.keys().
attach(st, self, filter, view, order) ==
    IF view = None
    THEN AttachEach([st EXCEPT !.shared_filters[st.vshare_of[self]] =
                                   Append(@, filter)],
                    filter, order)
    ELSE Filter_attach([st EXCEPT !.own_filters[view] = Append(@, filter)],
                       filter, view)

\* filter._detach(view): the filter is taken off the view.
Filter_detach(st, filter, view) ==
    [st EXCEPT !.attached[view] =
                   IF filter \in Range(@) THEN RemoveAt(@, IndexOf(@, filter))
                   ELSE @,
               !.calls = Append(@, <<"_detach", filter, view>>)]

\* for view in order: filter._detach(view)
RECURSIVE DetachEach(_, _, _)
DetachEach(st, filter, order) ==
    IF order = <<>> THEN st
    ELSE DetachEach(Filter_detach(st, filter, Head(order)), filter, Tail(order))

\* list.remove(x): the first occurrence of x is removed.
ListRemove(s, x) == RemoveAt(s, IndexOf(s, x))

\* A detach that calls filter._detach before it looks for the filter.
detach_unchecked(st, self, filter, view, order) ==
    IF view = None
    THEN [st |-> DetachEach(st, filter, order), raised |-> "ValueError"]
    ELSE [st |-> Filter_detach(st, filter, view), raised |-> "ValueError"]

\* Visual.detach; list.remove raises ValueError when the filter is not in
\* the list, before any _detach is called.
detach(st, self, filter, view, order) ==
    IF view = None
    THEN IF filter \notin Range(st.shared_filters[st.vshare_of[self]])
         THEN [st |-> st, raised |-> "ValueError"]
         ELSE [st |-> DetachEach(
                        [st EXCEPT !.shared_filters[st.vshare_of[self]] =
                                       ListRemove(@, filter)],
                        filter, order),
               raised |-> "none"]
    ELSE IF filter \notin Range(st.own_filters[view])
         THEN [st |-> st, raised |-> "ValueError"]
         ELSE [st |-> Filter_detach(
                        [st EXCEPT !.own_filters[view] = ListRemove(@, filter)],
                        filter, view),
               raised |-> "none"]

\* ----------------------------------------------------------- stack actions
\* The pushes that succeeded and were not popped yet, each with the stacks
\* as they were before it; ok is false from a pop that did not match the
\* last push until both stacks are empty again.
LogPush(kind, entry) ==
    IF pushes.ok
    THEN [pushes EXCEPT !.log = Append(@, [kind |-> kind, vp |-> vp_stack,
                                          fb |-> fb_stack, entry |-> entry])]
    ELSE pushes

LogPop(kind, r) ==
    IF r.raised = "none" /\ pushes.ok /\ pushes.log # <<>>
       /\ Last(pushes.log).kind = kind
    THEN [pushes EXCEPT !.log = Front(@)]
    ELSE IF r.g.vp_stack = vp_stack /\ r.g.fb_stack = fb_stack
         THEN pushes
         ELSE [log |-> <<>>,
               ok |-> r.g.vp_stack = <<>> /\ r.g.fb_stack = <<>>]

SetGL(g) ==
    /\ vp_stack' = g.vp_stack
    /\ fb_stack' = g.fb_stack
    /\ ctx' = g.ctx
    /\ tconf' = g.tconf
    /\ canvas_size' = g.size

CurrentGL == GLState(vp_stack, fb_stack, ctx, tconf, canvas_size)

PushViewport(viewport, fail) ==
    /\ Len(vp_stack) < MaxDepth
    /\ \E r \in {push_viewport(CurrentGL, viewport, fail)} :
           /\ SetGL(r.g)
           /\ pushes' = IF r.raised = "none"
                        THEN LogPush("viewport", Last(r.g.vp_stack))
                        ELSE pushes
           /\ last' = LastCmd("push_viewport",
                              [viewport |-> viewport, fail |-> fail],
                              r.raised, <<>>, NoVP, FALSE, r.g.cmds)
    /\ UNCHANGED <<mouse_handler>>
    /\ UNCHANGED sceneVars
    /\ UNCHANGED visualVars
    /\ UNCHANGED passVars
    /\ UNCHANGED ellipseVars

PopViewport ==
    /\ \E r \in {pop_viewport(CurrentGL)} :
           /\ SetGL(r.g)
           /\ pushes' = LogPop("viewport", r)
           /\ last' = LastCmd("pop_viewport", None, r.raised, <<>>, r.ret,
                              FALSE, r.g.cmds)
    /\ UNCHANGED <<mouse_handler>>
    /\ UNCHANGED sceneVars
    /\ UNCHANGED visualVars
    /\ UNCHANGED passVars
    /\ UNCHANGED ellipseVars

PushFbo(fbo, offset, csize, failActivate, failViewport) ==
    /\ Len(vp_stack) < MaxDepth
    /\ Len(fb_stack) < MaxDepth
    /\ \E r \in {push_fbo(CurrentGL, fbo, offset, csize, failActivate,
                         failViewport)} :
           /\ SetGL(r.g)
           /\ pushes' = IF r.raised = "none"
                        THEN LogPush("fbo", Last(r.g.fb_stack))
                        ELSE pushes
           /\ last' = LastCmd("push_fbo",
                              [fbo |-> fbo, failActivate |-> failActivate,
                               failViewport |-> failViewport,
                               fail |-> failActivate \/ failViewport],
                              r.raised, <<>>, NoVP, FALSE, r.g.cmds)
    /\ UNCHANGED <<mouse_handler>>
    /\ UNCHANGED sceneVars
    /\ UNCHANGED visualVars
    /\ UNCHANGED passVars
    /\ UNCHANGED ellipseVars

PopFbo ==
    /\ \E r \in {pop_fbo(CurrentGL)} :
           /\ SetGL(r.g)
           /\ pushes' = LogPop("fbo", r)
           /\ last' = LastCmd("pop_fbo", None, r.raised, <<>>, r.ret, FALSE,
                              r.g.cmds)
    /\ UNCHANGED <<mouse_handler>>
    /\ UNCHANGED sceneVars
    /\ UNCHANGED visualVars
    /\ UNCHANGED passVars
    /\ UNCHANGED ellipseVars

Render(region, size, failActivate, failViewport, failNode, failRead, img) ==
    /\ \E r \in {render(CurrentGL, scene, children, visible, draw_order,
                       region, size, failActivate, failViewport, failNode,
                       failRead, img)} :
           /\ SetGL(r.g)
           /\ draw_order' = r.cache
           /\ last' = LastCmd("render",
                              [region |-> region,
                               fail |-> failActivate \/ failViewport],
                              r.raised, r.drawn, r.ret, FALSE, r.g.cmds)
    /\ UNCHANGED <<scene, cc_conn, children, visible, mouse_handler, pushes>>
    /\ UNCHANGED visualVars
    /\ UNCHANGED passVars
    /\ UNCHANGED ellipseVars

VisualAt(pos, failActivate, failViewport, failNode, failRead, pixel) ==
    /\ \E r \in {visual_at(CurrentGL, scene, children, visible, draw_order,
                          pos, failActivate, failViewport, failNode, failRead,
                          pixel)} :
           /\ SetGL(r.g)
           /\ draw_order' = r.cache
           /\ last' = LastCmd("visual_at", [pos |-> pos, pixel |-> pixel],
                              r.raised, r.drawn, r.ret, FALSE, r.g.cmds)
    /\ UNCHANGED <<scene, cc_conn, children, visible, mouse_handler, pushes>>
    /\ UNCHANGED visualVars
    /\ UNCHANGED passVars
    /\ UNCHANGED ellipseVars

MouseEvent(type, pos, failActivate, failViewport, failNode, failRead, pixel) ==
    /\ \E r \in {_process_mouse_event(CurrentGL, scene, children, visible,
                                     draw_order, mouse_handler, type, pos,
                                     failActivate, failViewport, failNode,
                                     failRead, pixel)} :
           /\ SetGL(r.g)
           /\ draw_order' = r.cache
           /\ mouse_handler' = r.handler
           /\ last' = LastCmd("mouse_event",
                              [type |-> type, pos |-> pos, pixel |-> pixel,
                               fail |-> failActivate \/ failViewport
                                        \/ failRead \/ failNode # None],
                              r.raised, <<>>, r.routed, r.update, r.g.cmds)
    /\ UNCHANGED <<scene, cc_conn, children, visible, pushes>>
    /\ UNCHANGED visualVars
    /\ UNCHANGED passVars
    /\ UNCHANGED ellipseVars

\* ------------------------------------------------------------ construction
\* SceneCanvas.__init__ (lines 118-139): empty stacks, no mouse handler, an
\* empty draw-order cache, a new SubScene with no children.
InitCanvas ==
    /\ scene = InitialScene
    /\ cc_conn = {InitialScene}
    /\ children = [n \in Nodes |-> <<>>]
    /\ visible = [n \in Nodes |-> TRUE]
    /\ draw_order = EmptyCache
    /\ vp_stack = <<>>
    /\ fb_stack = <<>>
    /\ ctx = [viewport |-> FullViewport, fbo |-> None]
    /\ canvas_size = CanvasSize
    /\ tconf = [viewport |-> NoVP, fbo_size |-> NoVP, fbo_rect |-> NoVP]
    /\ mouse_handler = None
    /\ pushes = [log |-> <<>>, ok |-> TRUE]
    /\ last = LastRec("init", None, "none", <<>>, None, FALSE)

\* No visual was constructed yet.
InitVisuals ==
    /\ vshare_of = [o \in AllObjs |-> None]
    /\ visual_of = [o \in AllObjs |-> None]
    /\ views = [o \in AllObjs |-> {}]
    /\ shared_filters = [o \in AllObjs |-> <<>>]
    /\ own_filters = [o \in AllObjs |-> <<>>]
    /\ attached = [o \in AllObjs |-> <<>>]
    /\ class_of = [o \in AllObjs |-> "none"]
    /\ transforms_of = [o \in AllObjs |-> None]
    /\ subvisuals = [o \in AllObjs |-> <<>>]
    /\ sub_visible = [o \in AllObjs |-> TRUE]

\* No draw pass is running and no callback is blocked.
InitPass ==
    /\ in_pass = FALSE
    /\ blocked = None

\* No ellipse was constructed yet.
NoEllipse ==
    [center |-> <<>>, radius |-> [tuple |-> FALSE, val |-> <<>>],
     num_segments |-> 0, vertices |-> <<>>]

InitEllipse == ellipse = NoEllipse

Init == InitCanvas /\ InitVisuals /\ InitPass /\ InitEllipse

\* The nodes draw_visual is called on: _draw_scene (line 235) draws self.scene.
DrawRoots == {scene}

\* The canvas and its scene: the SubScenes stay roots, the other nodes are
\* added to and removed from the trees.
NextScene ==
    \/ \E p \in Nodes, c \in Nodes \ SubScenes : AddChild(p, c)
    \/ \E p \in Nodes, i \in 1..NumNodes : RemoveChild(p, i)
    \/ \E n \in Nodes : SetVisible(n)
    \/ \E e \in SubScenes : SetScene(e)
    \/ _scene_update
    \/ \E v \in DrawRoots, f \in Nodes \cup {None} : DrawVisual(v, f)

SpecScene == Init /\ [][NextScene]_vars

\* ------------------------------------------------- draw_visual on any node
\* draw_visual is public: it is called on the scene and on any other node,
\* between changes of the tree and of the visible flags.  The draw() that
\* may raise is the one of the scene.
\* The nodes of the canvas: its scene and the visuals put into it.
WalkNodes == Nodes \ {OtherScene}

NextWalk ==
    \/ \E p \in WalkNodes, c \in Nodes \ SubScenes : AddChild(p, c)
    \/ \E p \in WalkNodes, i \in 1..NumNodes : RemoveChild(p, i)
    \/ \E n \in WalkNodes : SetVisible(n)
    \/ \E v \in WalkNodes, f \in {scene, None} : DrawVisual(v, f)

SpecWalk == Init /\ [][NextWalk]_vars

\* ------------------------------------------------------- the draw pass
\* _draw_scene up to the entry of the with block (lines 228-234): the
\* context is cleared and _scene_update is blocked on the update emitter of
\* the scene.
BeginPass ==
    /\ ~in_pass
    /\ in_pass' = TRUE
    /\ blocked' = scene
    /\ last' = LastCmd("_draw_scene_enter", scene, "none", <<>>, None, FALSE,
                       <<<<"clear">>>>)
    /\ UNCHANGED <<mouse_handler>>
    /\ UNCHANGED sceneVars
    /\ UNCHANGED stackVars
    /\ UNCHANGED visualVars
    /\ UNCHANGED ellipseVars

\* The body and the exit of the with block (line 235): draw_visual draws the
\* scene the pass was begun on, and the blocker unblocks the callback
\* whether draw_visual returned or raised.
EndPass(failNode) ==
    /\ in_pass
    /\ \E r \in {draw_visual(scene, children, visible, draw_order, blocked,
                              failNode)} :
           /\ draw_order' = r.cache
           /\ last' = LastRec("_draw_scene", blocked, r.raised, r.drawn, None,
                              FALSE)
    /\ in_pass' = FALSE
    /\ blocked' = None
    /\ UNCHANGED <<scene, cc_conn, children, visible, mouse_handler>>
    /\ UNCHANGED stackVars
    /\ UNCHANGED visualVars
    /\ UNCHANGED ellipseVars

\* A draw pass with the notifications the scene emits before, during and
\* after it.
NextPass ==
    \/ \E p \in Nodes, c \in Nodes \ SubScenes : AddChild(p, c)
    \/ \E p \in Nodes, i \in 1..NumNodes : RemoveChild(p, i)
    \/ \E n \in Nodes : SetVisible(n)
    \/ _scene_update
    \/ BeginPass
    \/ \E f \in Nodes \cup {None} : EndPass(f)

SpecPass == Init /\ [][NextPass]_vars

\* A pass that was begun runs to its end.
FairPass == SpecPass /\ WF_vars(\E f \in Nodes \cup {None} : EndPass(f))

\* --------------------------------------------------- the two stacks
\* What can fail in the environment of a render: the activation of the
\* framebuffer, the activation of its viewport, the draw() of the scene
\* root, the read-back.
FailureModes == {"none", "activate", "viewport", "draw", "read"}

\* The scenes the stack handlers are run on: the scene as constructed, and
\* the scene after a first visual was added to it.
PopulatedScenes ==
    {[n \in Nodes |-> <<>>],
     [n \in Nodes |-> IF n = InitialScene THEN <<OtherScene + 1>> ELSE <<>>]}

InitPopulated ==
    /\ scene = InitialScene
    /\ cc_conn = {InitialScene}
    /\ children \in PopulatedScenes
    /\ visible = [n \in Nodes |-> TRUE]
    /\ draw_order = EmptyCache
    /\ vp_stack = <<>>
    /\ fb_stack = <<>>
    /\ ctx = [viewport |-> FullViewport, fbo |-> None]
    /\ canvas_size = CanvasSize
    /\ tconf = [viewport |-> NoVP, fbo_size |-> NoVP, fbo_rect |-> NoVP]
    /\ mouse_handler = None
    /\ pushes = [log |-> <<>>, ok |-> TRUE]
    /\ last = LastRec("init", None, "none", <<>>, None, FALSE)
    /\ InitVisuals
    /\ InitPass
    /\ InitEllipse

\* The viewports pushed on the stacks: one of positive and one of negative
\* extent.
StackViewports == {<<0, 0, c, c>> : c \in {-MaxCoord, MaxCoord}}
RenderRegions == {NoRegion, <<0, 0, 1, 1>>}

RenderWith(region, mode) ==
    Render(region, NoVP, mode = "activate", mode = "viewport",
           IF mode = "draw" THEN scene ELSE None, mode = "read", <<0, 0, 0, 0>>)

NextStack ==
    \/ \E vp \in StackViewports, fail \in BOOLEAN : PushViewport(vp, fail)
    \/ PopViewport
    \/ \E fbo \in Fbos, fa \in BOOLEAN, fv \in BOOLEAN :
          PushFbo(fbo, <<0, 0>>, <<fbo.shape[2], fbo.shape[1]>>, fa, fv)
    \/ PopFbo
    \/ \E region \in RenderRegions, mode \in FailureModes :
          RenderWith(region, mode)

SpecStack == InitPopulated /\ [][NextStack]_vars

\* -------------------------------------------------------------- resizing
\* SceneCanvas.on_resize, lines 337-351, after the backend changed the size
\* of the canvas: the transforms are reconfigured, and the viewport is set
\* to the whole canvas when no viewport is pushed.  No central widget was
\* made.
on_resize(g) ==
    Only({ IF Len(g1.vp_stack) = 0
           THEN [g1 EXCEPT !.ctx.viewport = PhysicalViewport(g1),
                           !.cmds = Append(@, <<"set_viewport",
                                                PhysicalViewport(g1)>>)]
           ELSE g1
           : g1 \in {_update_transforms(g)} })

\* The window is resized to sz and the canvas handles the resize event.
Resize(sz) ==
    /\ sz # canvas_size
    /\ \E g \in {on_resize([CurrentGL EXCEPT !.size = sz])} :
           /\ SetGL(g)
           /\ last' = LastCmd("resize", sz, "none", <<>>, None, FALSE, g.cmds)
    /\ UNCHANGED <<mouse_handler, pushes>>
    /\ UNCHANGED sceneVars
    /\ UNCHANGED visualVars
    /\ UNCHANGED passVars
    /\ UNCHANGED ellipseVars

\* The stack handlers and the resize handler.
NextResize ==
    \/ \E vp \in StackViewports, fail \in BOOLEAN : PushViewport(vp, fail)
    \/ PopViewport
    \/ \E fbo \in Fbos, fa \in BOOLEAN, fv \in BOOLEAN :
          PushFbo(fbo, <<0, 0>>, <<fbo.shape[2], fbo.shape[1]>>, fa, fv)
    \/ PopFbo
    \/ \E sz \in {CanvasSize, <<400, 300>>} : Resize(sz)

SpecResize == Init /\ [][NextResize]_vars

\* ------------------------------------------- one viewport push at a time
Coords == (-MaxCoord)..MaxCoord

NextViewport ==
    \/ \E vp \in (Coords \X Coords \X Coords \X Coords)
                       \cup {<<0, 0, -100, 50>>}, fail \in BOOLEAN :
          vp_stack = <<>> /\ PushViewport(vp, fail)
    \/ PopViewport

SpecViewport == Init /\ [][NextViewport]_vars

\* ------------------------------------------------------------- picking
\* The color bytes the picking pass may read back.
Bytes == 0..MaxByte

\* The background, and the little-endian color of each registered visual.
MousePixels ==
    {<<0, 0, 0, 0>>} \cup {<<VisualIdOf(n), 0, 0, 0>> : n \in Registered}

VisualAtWith(pixel, mode) ==
    VisualAt(<<0, 0>>, mode = "activate", mode = "viewport",
             IF mode = "draw" THEN scene ELSE None, mode = "read", pixel)

\* Visuals are added to and removed from the scene; positions are picked.
NextPick ==
    \/ \E c \in Nodes \ SubScenes : AddChild(scene, c)
    \/ \E i \in 1..NumNodes : RemoveChild(scene, i)
    \/ \E pixel \in (Bytes \X Bytes \X Bytes \X Bytes) \cup {<<4, 3, 2, 1>>} :
          VisualAtWith(pixel, "none")
    \/ \E pixel \in MousePixels, mode \in FailureModes : VisualAtWith(pixel, mode)

SpecPick == Init /\ [][NextPick]_vars

\* --------------------------------------------------- the entry points
\* SceneCanvas.on_draw(event), lines 177-189, with _draw_scene (lines
\* 227-235) inlined: the context is cleared (line 230), then draw_visual
\* makes the context current (line 250) and draws the scene.
on_draw(sc, ch, vis, cache, failNode) ==
    Only({ [cache |-> d.cache, drawn |-> d.drawn, raised |-> d.raised,
            cmds |-> <<<<"clear">>, <<"set_current">>>>]
           : d \in {draw_visual(sc, ch, vis, cache, sc, failNode)} })

\* The draw event of the canvas.
OnDraw(failNode) ==
    /\ \E r \in {on_draw(scene, children, visible, draw_order, failNode)} :
           /\ draw_order' = r.cache
           /\ last' = LastCmd("on_draw", None, r.raised, r.drawn, None, FALSE,
                              r.cmds)
    /\ UNCHANGED <<scene, cc_conn, children, visible, mouse_handler>>
    /\ UNCHANGED stackVars
    /\ UNCHANGED visualVars
    /\ UNCHANGED passVars
    /\ UNCHANGED ellipseVars

\* The public draw and render entry points on a scene that changes.
NextEntry ==
    \/ \E c \in Nodes \ SubScenes : AddChild(scene, c)
    \/ \E i \in 1..NumNodes : RemoveChild(scene, i)
    \/ \E n \in Nodes : SetVisible(n)
    \/ \E f \in Nodes \cup {None} : OnDraw(f)
    \/ \E f \in Nodes \cup {None} : DrawVisual(scene, f)
    \/ \E region \in RenderRegions, mode \in FailureModes :
          RenderWith(region, mode)
    \/ \E pixel \in MousePixels, mode \in FailureModes :
          VisualAtWith(pixel, mode)

SpecEntry == Init /\ [][NextEntry]_vars

\* ------------------------------------------- picking on pushed stacks
\* Positions are picked, on the scene as constructed and on the scene with
\* a first visual, while framebuffers with their viewports are pushed.
NextPickStack ==
    \/ \E fbo \in Fbos :
          PushFbo(fbo, <<0, 0>>, <<fbo.shape[2], fbo.shape[1]>>, FALSE, FALSE)
    \/ PopFbo
    \/ \E pixel \in MousePixels, mode \in FailureModes :
          VisualAtWith(pixel, mode)

SpecPickStack == InitPopulated /\ [][NextPickStack]_vars

\* ---------------------------------------------------------- mouse events

MouseEventWith(type, pixel, mode) ==
    MouseEvent(type, <<0, 0>>, mode = "activate", mode = "viewport",
               IF mode = "draw" THEN scene ELSE None, mode = "read", pixel)

NextMouse ==
    \/ \E c \in Nodes \ SubScenes : AddChild(scene, c)
    \/ \E i \in 1..NumNodes : RemoveChild(scene, i)
    \/ \E type \in {"mouse_press", "mouse_move", "mouse_release", "mouse_wheel"},
          pixel \in MousePixels, mode \in FailureModes :
          MouseEventWith(type, pixel, mode)

SpecMouse == Init /\ [][NextMouse]_vars

\* ------------------------------------------------------ visuals and views
CurrentVisuals ==
    VisualState(vshare_of, visual_of, views, shared_filters, own_filters,
                attached, class_of, transforms_of, subvisuals, sub_visible)

SetVisuals(st) ==
    /\ vshare_of' = st.vshare_of
    /\ visual_of' = st.visual_of
    /\ views' = st.views
    /\ shared_filters' = st.shared_filters
    /\ own_filters' = st.own_filters
    /\ attached' = st.attached
    /\ class_of' = st.class_of
    /\ transforms_of' = st.transforms_of
    /\ subvisuals' = st.subvisuals
    /\ sub_visible' = st.sub_visible

Live(o) == vshare_of[o] # None

\* The identity a new object gets: the first one not in use.
Fresh(o) == ~Live(o) /\ \A p \in 1..(o - 1) : Live(p)

\* o = Visual()
NewVisual(o) ==
    /\ Fresh(o)
    /\ \E st \in {Visual__init__(CurrentVisuals, o)} :
           /\ SetVisuals(st)
           /\ last' = LastCmd("Visual", o, "none", <<>>, None, FALSE, st.calls)
    /\ UNCHANGED <<mouse_handler>>
    /\ UNCHANGED sceneVars
    /\ UNCHANGED stackVars
    /\ UNCHANGED passVars
    /\ UNCHANGED ellipseVars

\* The identities of n objects made after object o: the first ones not in
\* use.
FreeAfter(o) == {q \in AllObjs : q > o /\ ~Live(q)}

RECURSIVE FirstOf(_, _)
FirstOf(S, n) ==
    IF n = 0 THEN <<>>
    ELSE LET p == CHOOSE q \in S : \A r \in S : q <= r
         IN  <<p>> \o FirstOf(S \ {p}, n - 1)

FreshIds(o, n) == FirstOf(FreeAfter(o), n)

\* o = visual.view()
View(o, visual) ==
    /\ Fresh(o)
    /\ Live(visual)
    /\ Cardinality(FreeAfter(o)) >= Len(subvisuals[visual])
    /\ \E st \in {BaseVisual_view(CurrentVisuals, o, visual,
                                   FreshIds(o, Len(subvisuals[visual])))} :
           /\ SetVisuals(st)
           /\ last' = LastCmd("view", [self |-> o, visual |-> visual], "none",
                              <<>>, None, FALSE, st.calls)
    /\ UNCHANGED <<mouse_handler>>
    /\ UNCHANGED sceneVars
    /\ UNCHANGED stackVars
    /\ UNCHANGED passVars
    /\ UNCHANGED ellipseVars

\* The filters held by the shares and the objects together, which the
\* model bounds.
RECURSIVE FilterLoad(_)
FilterLoad(S) ==
    IF S = {} THEN 0
    ELSE LET o == CHOOSE x \in S : TRUE
         IN  Len(shared_filters[o]) + Len(own_filters[o]) + FilterLoad(S \ {o})

\* self.attach(filter, view)
Attach(self, filter, view) ==
    /\ Live(self)
    /\ view # None => Live(view)
    /\ \E order \in IterationOrders(views[vshare_of[self]], view) :
       \E st \in {attach(CurrentVisuals, self, filter, view, order)} :
           /\ SetVisuals(st)
           /\ last' = LastCmd("attach",
                              [self |-> self, filter |-> filter, view |-> view,
                               shared_before |-> shared_filters,
                               own_before |-> own_filters],
                              "none", <<>>, None, FALSE, st.calls)
    /\ UNCHANGED <<mouse_handler>>
    /\ UNCHANGED sceneVars
    /\ UNCHANGED stackVars
    /\ UNCHANGED passVars
    /\ UNCHANGED ellipseVars

\* self.detach(filter, view)
Detach(self, filter, view) ==
    /\ Live(self)
    /\ view # None => Live(view)
    /\ \E order \in IterationOrders(views[vshare_of[self]], view) :
       \E r \in {detach(CurrentVisuals, self, filter, view, order)} :
           /\ SetVisuals(r.st)
           /\ last' = LastCmd("detach",
                              [self |-> self, filter |-> filter, view |-> view],
                              r.raised, <<>>, None, FALSE, r.st.calls)
    /\ UNCHANGED <<mouse_handler>>
    /\ UNCHANGED sceneVars
    /\ UNCHANGED stackVars
    /\ UNCHANGED passVars
    /\ UNCHANGED ellipseVars

\* The last reference to o is dropped: o leaves the weak dictionary of its
\* share.  A viewed visual is kept alive by its views.
Collect(o) ==
    /\ Live(o)
    /\ \A v \in Objs : visual_of[v] # o
    /\ vshare_of' = [vshare_of EXCEPT ![o] = None]
    /\ visual_of' = [visual_of EXCEPT ![o] = None]
    /\ views' = [views EXCEPT ![vshare_of[o]] = @ \ {o}]
    /\ own_filters' = [own_filters EXCEPT ![o] = <<>>]
    /\ attached' = [attached EXCEPT ![o] = <<>>]
    /\ shared_filters' = IF vshare_of[o] = o
                         THEN [shared_filters EXCEPT ![o] = <<>>]
                         ELSE shared_filters
    /\ class_of' = [class_of EXCEPT ![o] = "none"]
    /\ transforms_of' = [transforms_of EXCEPT ![o] = None]
    /\ UNCHANGED <<subvisuals, sub_visible>>
    /\ last' = LastRec("collect", o, "none", <<>>, None, FALSE)
    /\ UNCHANGED <<mouse_handler>>
    /\ UNCHANGED sceneVars
    /\ UNCHANGED stackVars
    /\ UNCHANGED passVars
    /\ UNCHANGED ellipseVars

NextVisual ==
    \/ \E o \in Objs : NewVisual(o)
    \/ \E o \in Objs, v \in Objs : View(o, v)
    \/ \E self \in Objs, f \in Filters, view \in Objs \cup {None} :
          FilterLoad(Objs) < MaxFilters /\ Attach(self, f, view)
    \/ \E o \in Objs : Collect(o)

SpecVisual == Init /\ [][NextVisual]_vars

\* Filters are attached and detached, the detached one attached or not.
NextAbsent ==
    \/ \E o \in Objs : NewVisual(o)
    \/ \E o \in Objs, v \in Objs : View(o, v)
    \/ \E self \in Objs, f \in Filters, view \in Objs \cup {None} :
          FilterLoad(Objs) + 1 < MaxFilters /\ Attach(self, f, view)
    \/ \E self \in Objs, f \in Filters, view \in Objs \cup {None} :
          Detach(self, f, view)
    \/ \E o \in Objs : Collect(o)

SpecAbsent == Init /\ [][NextAbsent]_vars

\* The same with one more filter attached, so that a filter can be attached
\* again behind another one.
NextDetach ==
    \/ \E o \in Objs : NewVisual(o)
    \/ \E o \in Objs, v \in Objs : View(o, v)
    \/ \E self \in Objs, f \in Filters, view \in Objs \cup {None} :
          FilterLoad(Objs) <= MaxFilters /\ Attach(self, f, view)
    \/ \E self \in Objs, f \in Filters, view \in Objs \cup {None} :
          Detach(self, f, view)
    \/ \E o \in Objs : Collect(o)

SpecDetach == Init /\ [][NextDetach]_vars

\* Filters are attached and detached without a view argument, on visuals
\* and on their views.
NextShared ==
    \/ \E o \in Objs : NewVisual(o)
    \/ \E o \in Objs, v \in Objs : View(o, v)
    \/ \E self \in Objs, f \in Filters :
          FilterLoad(Objs) <= MaxFilters /\ Attach(self, f, None)
    \/ \E self \in Objs, f \in Filters : Detach(self, f, None)
    \/ \E o \in Objs : Collect(o)

SpecShared == Init /\ [][NextShared]_vars

\* ------------------------------------------------------- compound visuals
\* The sub-visual lists a compound is made of.
SubvisualLists ==
    {<<>>} \cup {<<v>> : v \in AllObjs}
           \cup {q \in {<<v, w>> : v \in AllObjs, w \in AllObjs} : q[1] # q[2]}

\* A visual that is in no compound yet.
FreeVisual(v) ==
    /\ class_of[v] = "Visual"
    /\ \A c \in AllObjs : v \notin Range(subvisuals[c])

\* o = CompoundVisual(subs)
NewCompound(o, subs) ==
    /\ Fresh(o)
    /\ \A v \in Range(subs) : FreeVisual(v)
    /\ \E st \in {CompoundVisual__init__(
                     [CurrentVisuals EXCEPT !.class_of[o] = "CompoundVisual"],
                     o, subs)} :
           /\ SetVisuals(st)
           /\ last' = LastCmd("CompoundVisual", [self |-> o, subs |-> subs],
                              "none", <<>>, None, FALSE, st.calls)
    /\ UNCHANGED <<mouse_handler>>
    /\ UNCHANGED sceneVars
    /\ UNCHANGED stackVars
    /\ UNCHANGED passVars
    /\ UNCHANGED ellipseVars

\* v.visible = not v.visible, for a sub-visual v
SetSubVisible(v) ==
    /\ \E c \in AllObjs : v \in Range(subvisuals[c])
    /\ sub_visible' = [sub_visible EXCEPT ![v] = ~@]
    /\ last' = LastRec("visible", v, "none", <<>>, None, FALSE)
    /\ UNCHANGED <<vshare_of, visual_of, views, shared_filters, own_filters,
                   attached, class_of, transforms_of, subvisuals>>
    /\ UNCHANGED <<mouse_handler>>
    /\ UNCHANGED sceneVars
    /\ UNCHANGED stackVars
    /\ UNCHANGED passVars
    /\ UNCHANGED ellipseVars

\* The bounds a sub-visual can report on one axis.
AxisBounds == {q \in (0..MaxCoord) \X (0..MaxCoord) : q[1] <= q[2]}


\* The loop of CompoundVisual._compute_bounds, lines 485-491, from the i-th
\* sub-visual on. Line 487 reads the name b, which is bound nowhere in the
\* function or the module: evaluating it raises NameError, so lines 488-491
\* never run.
RECURSIVE BoundsLoop(_, _, _, _)
BoundsLoop(st, subs, i, bounds) ==
    IF i > Len(subs) THEN [raised |-> "none", ret |-> bounds]
    ELSE IF st.sub_visible[subs[i]]
         THEN [raised |-> "NameError", ret |-> None]
         ELSE BoundsLoop(st, subs, i + 1, bounds)

\* CompoundVisual._compute_bounds(axis, view), lines 483-492; on a
\* CompoundVisualView, BaseVisualView._compute_bounds (lines 201-202) calls
\* the viewed visual's and returns nothing.
_compute_bounds(st, self, axis, view) ==
    IF st.class_of[self] = "CompoundVisualView"
    THEN [BoundsLoop(st, st.subvisuals[st.visual_of[self]], 1, None)
             EXCEPT !.ret = None]
    ELSE BoundsLoop(st, st.subvisuals[self], 1, None)

\* o._compute_bounds(axis, o), the sub-visuals reporting the bounds vb on
\* that axis
ComputeBounds(o, axis) ==
    /\ Live(o)
    /\ IsCompound(CurrentVisuals, o)
    /\ \E vb \in [Range(subvisuals[o]) -> AxisBounds] :
       \E r \in {_compute_bounds(CurrentVisuals, o, axis, o)} :
           last' = LastRec("_compute_bounds",
                           [self |-> o, axis |-> axis, vb |-> vb],
                           r.raised, <<>>, r.ret, FALSE)
    /\ UNCHANGED visualVars
    /\ UNCHANGED <<mouse_handler>>
    /\ UNCHANGED sceneVars
    /\ UNCHANGED stackVars
    /\ UNCHANGED passVars
    /\ UNCHANGED ellipseVars

\* CompoundVisual.remove_subvisual(visual), lines 449-451.  Line 450 reads
\* the name visuals, which is bound nowhere (the parameter is visual):
\* evaluating it raises NameError before list.remove is called, so the list
\* is unchanged and line 451 never runs.
remove_subvisual(st, self, visual) == [st |-> st, raised |-> "NameError"]

\* c.remove_subvisual(v), for a sub-visual v of c
RemoveSubvisual(c, v) ==
    /\ Live(c)
    /\ class_of[c] = "CompoundVisual"
    /\ v \in Range(subvisuals[c])
    /\ \E r \in {remove_subvisual(CurrentVisuals, c, v)} :
           /\ SetVisuals(r.st)
           /\ last' = LastCmd("remove_subvisual", [self |-> c, visual |-> v],
                              r.raised, <<>>, None, FALSE, r.st.calls)
    /\ UNCHANGED <<mouse_handler>>
    /\ UNCHANGED sceneVars
    /\ UNCHANGED stackVars
    /\ UNCHANGED passVars
    /\ UNCHANGED ellipseVars

NextCompound ==
    \/ \E o \in AllObjs : NewVisual(o)
    \/ \E o \in AllObjs, subs \in SubvisualLists : NewCompound(o, subs)
    \/ \E o \in AllObjs, v \in AllObjs : View(o, v)
    \/ \E v \in AllObjs : SetSubVisible(v)
    \/ \E o \in AllObjs, axis \in {0, 1} : ComputeBounds(o, axis)
    \/ \E c \in AllObjs, v \in AllObjs : RemoveSubvisual(c, v)

SpecCompound == Init /\ [][NextCompound]_vars

\* ------------------------------------------------- drawing and transforms
\* self._prepare_draw(view=self) in Visual.draw.  On a VisualView the method
\* is BaseVisualView._prepare_draw (lines 195-196), which calls the viewed
\* visual's with the view and returns nothing.
_prepare_draw(st, self, result) ==
    IF st.visual_of[self] # None
    THEN [call |-> <<"_prepare_draw", st.visual_of[self], self>>,
          ret |-> "None"]
    ELSE [call |-> <<"_prepare_draw", self, self>>, ret |-> result]

\* A draw that issues the geometry draw whatever _prepare_draw returned.
draw_unconditional(st, self, result) ==
    LET p == _prepare_draw(st, self, result)
    IN  [ret |-> p.ret,
         calls |-> <<<<"set_state", st.vshare_of[self]>>, p.call,
                     <<"draw", self, st.vshare_of[self]>>>>]

\* Visual.draw, lines 333-337.  The GL state, the draw mode and the index
\* buffer are those of the share, which its identity stands for;
\* the geometry draw is issued on the program of self.
Visual_draw(st, self, result) ==
    LET p == _prepare_draw(st, self, result)
    IN  [ret |-> p.ret,
         calls |-> <<<<"set_state", st.vshare_of[self]>>, p.call>>
                   \o (IF p.ret = "False" THEN <<>>
                       ELSE <<<<"draw", self, st.vshare_of[self]>>>>)]

\* The transform setter (lines 154-156) makes the TransformSystem emit
\* changed, which is connected to _transform_changed (line 148); the
\* handler (lines 181-182) calls self.update().
_transform_changed(st, self) == <<<<"update", self>>>>

\* What the previous call returned, if it was a draw() of o.
PreviousDraw(o) ==
    IF last.op = "draw" /\ last.arg.self = o THEN last.ret ELSE "none"

\* o.draw(), the _prepare_draw of its class (for a view: of the class of the
\* viewed visual) returning result
Draw(o, result) ==
    /\ Live(o)
    /\ ~IsCompound(CurrentVisuals, o)
    /\ \E r \in {Visual_draw(CurrentVisuals, o, result)} :
           last' = LastCmd("draw", [self |-> o, previous |-> PreviousDraw(o),
                                    prepare |-> result],
                           "none", <<>>, r.ret, FALSE, r.calls)
    /\ UNCHANGED <<mouse_handler>>
    /\ UNCHANGED sceneVars
    /\ UNCHANGED stackVars
    /\ UNCHANGED visualVars
    /\ UNCHANGED passVars
    /\ UNCHANGED ellipseVars

\* o.transform = tr
SetTransform(o) ==
    /\ Live(o)
    /\ ~IsCompound(CurrentVisuals, o)
    /\ last' = LastCmd("set_transform", o, "none", <<>>, None, TRUE,
                       _transform_changed(CurrentVisuals, o))
    /\ UNCHANGED <<mouse_handler>>
    /\ UNCHANGED sceneVars
    /\ UNCHANGED stackVars
    /\ UNCHANGED visualVars
    /\ UNCHANGED passVars
    /\ UNCHANGED ellipseVars

NextDraw ==
    \/ \E o \in AllObjs : NewVisual(o)
    \/ \E o \in AllObjs, v \in AllObjs : View(o, v)
    \* _prepare_draw of a Visual subclass returns False, None or True (lines
    \* 280-287: False says that the visual should not be drawn)
    \/ \E o \in AllObjs, result \in {"False", "None", "True"} : Draw(o, result)
    \/ \E o \in AllObjs : SetTransform(o)

SpecDraw == Init /\ [][NextDraw]_vars

\* ------------------------------------------------------------ the ellipse
\* center=None (line 43)
NoCenter == <<>>

\* A radius is a number or a list/tuple of numbers (line 62).
Radii ==
    {[tuple |-> FALSE, val |-> <<r>>] : r \in 1..MaxRadius}
        \cup {[tuple |-> TRUE, val |-> q] :
                  q \in UNION {[1..n -> 1..MaxRadius] : n \in 1..3}}


\* No vertex data was generated yet.
NoVertices == <<>>

\* EllipseVisual._generate_vertices, lines 59-93: the radii are unpacked
\* (lines 62-70) and num_segments + 2 vertices are laid around the center,
\* the last one being the center (line 91).
_generate_vertices(center, radius, num_segments) ==
    IF radius.tuple /\ Len(radius.val) # 2
    THEN [raised |-> "ValueError", vertices |-> NoVertices]
    ELSE [raised |-> "none",
          vertices |-> <<[count |-> num_segments + 2,
                          xr |-> radius.val[1],
                          yr |-> IF radius.tuple THEN radius.val[2]
                                 ELSE radius.val[1],
                          closing |-> center]>>]

\* EllipseVisual._update_vertices, lines 142-169, on the ellipse el: nothing
\* without a center (lines 143-144); otherwise the generated vertices are
\* handed to the mesh (lines 156-158).
_update_vertices(el) ==
    IF el.center = NoCenter THEN [el |-> el, raised |-> "none"]
    ELSE Only({ IF g.raised # "none" THEN [el |-> el, raised |-> g.raised]
                ELSE [el |-> [el EXCEPT !.vertices = g.vertices],
                      raised |-> "none"]
                : g \in {_generate_vertices(el.center, el.radius,
                                            el.num_segments)} })

\* The radius setter, lines 101-104: the value is stored, then the vertices
\* are updated.
set_radius(el, radius) == _update_vertices([el EXCEPT !.radius = radius])

\* The num_segments setter, lines 134-140: the value is checked before it
\* is stored.
set_num_segments(el, num_segments) ==
    IF num_segments < 1 THEN [el |-> el, raised |-> "ValueError"]
    ELSE _update_vertices([el EXCEPT !.num_segments = num_segments])

\* EllipseVisual(center, radius, num_segments), lines 43-57.
EllipseVisual__init__(center, radius, num_segments) ==
    _update_vertices([center |-> center, radius |-> radius,
                      num_segments |-> num_segments, vertices |-> NoVertices])

\* ellipse = EllipseVisual(center=center, radius=radius,
\*                         num_segments=num_segments)
NewEllipse(center, radius, num_segments) ==
    /\ ellipse = NoEllipse
    /\ \E r \in {EllipseVisual__init__(center, radius, num_segments)} :
           /\ r.raised = "none"
           /\ ellipse' = r.el
           /\ last' = LastRec("EllipseVisual", center, "none", <<>>, None,
                              FALSE)
    /\ UNCHANGED <<mouse_handler>>
    /\ UNCHANGED sceneVars
    /\ UNCHANGED stackVars
    /\ UNCHANGED visualVars
    /\ UNCHANGED passVars

\* ellipse.radius = radius
SetRadius(radius) ==
    /\ ellipse # NoEllipse
    /\ \E r \in {set_radius(ellipse, radius)} :
           /\ ellipse' = r.el
           /\ last' = LastRec("set_radius", radius, r.raised, <<>>, None,
                              FALSE)
    /\ UNCHANGED <<mouse_handler>>
    /\ UNCHANGED sceneVars
    /\ UNCHANGED stackVars
    /\ UNCHANGED visualVars
    /\ UNCHANGED passVars

\* ellipse.num_segments = num_segments
SetNumSegments(num_segments) ==
    /\ ellipse # NoEllipse
    /\ \E r \in {set_num_segments(ellipse, num_segments)} :
           /\ ellipse' = r.el
           /\ last' = LastRec("set_num_segments", num_segments, r.raised,
                              <<>>, None, FALSE)
    /\ UNCHANGED <<mouse_handler>>
    /\ UNCHANGED sceneVars
    /\ UNCHANGED stackVars
    /\ UNCHANGED visualVars
    /\ UNCHANGED passVars

NextEllipse ==
    \/ \E center \in {NoCenter, <<0, 0>>}, radius \in Radii, n \in 1..MaxSegments :
           NewEllipse(center, radius, n)
    \/ \E radius \in Radii : SetRadius(radius)
    \/ \E n \in (-1)..MaxSegments : SetNumSegments(n)

SpecEllipse == Init /\ [][NextEllipse]_vars

\* ------------------------------------------------ the draw order alone
\* _generate_draw_order applied to node n of the current forest.
GenerateDrawOrder(n) ==
    /\ last' = LastRec("generate_draw_order", n, "none", <<>>,
                       _generate_draw_order(children, n), FALSE)
    /\ UNCHANGED <<scene, cc_conn, children, visible, draw_order, mouse_handler>>
    /\ UNCHANGED stackVars
    /\ UNCHANGED visualVars
    /\ UNCHANGED passVars
    /\ UNCHANGED ellipseVars

\* Every forest over the nodes, and the draw order of each of its nodes.
NextOrder ==
    \/ \E p \in Nodes, c \in Nodes : AddChild(p, c)
    \/ \E p \in Nodes, i \in 1..NumNodes : RemoveChild(p, i)
    \/ \E n \in Nodes : GenerateDrawOrder(n)

SpecOrder == Init /\ [][NextOrder]_vars

\* ------------------------------------------------------------------- C1
PosIn(order, node, start) == IndexOf(order, <<node, start>>)

\* C1: the order generated for node r holds (n, enter) and (n, exit) exactly
\* once for every node n of r's subtree and nothing else; the first child is
\* entered right after its parent, each next child right after the exit of
\* the previous one, and a node exits right after the exit of its last child
\* (right after its own enter when it has no child): a well-nested bracket
\* sequence in child order.  So every descendant's pair lies inside the
\* pair of its ancestor.
C1_WellNested(order, ch, r) ==
    LET S == {r} \cup Descendants(ch, r)
    IN  /\ Len(order) = 2 * Cardinality(S)
        /\ \A i \in 1..Len(order) : order[i][1] \in S
        /\ \A n \in S : /\ Count(order, <<n, TRUE>>) = 1
                        /\ Count(order, <<n, FALSE>>) = 1
        /\ \A n \in S :
              LET kids == ch[n]
              IN  IF kids = <<>>
                  THEN PosIn(order, n, FALSE) = PosIn(order, n, TRUE) + 1
                  ELSE /\ PosIn(order, kids[1], TRUE) = PosIn(order, n, TRUE) + 1
                       /\ PosIn(order, n, FALSE)
                             = PosIn(order, kids[Len(kids)], FALSE) + 1
                       /\ \A i \in 1..(Len(kids) - 1) :
                             PosIn(order, kids[i + 1], TRUE)
                                = PosIn(order, kids[i], FALSE) + 1
        /\ \A n \in S : \A d \in Descendants(ch, n) :
              /\ PosIn(order, n, TRUE) < PosIn(order, d, TRUE)
              /\ PosIn(order, d, FALSE) < PosIn(order, n, FALSE)

C1_DrawOrderWellNested ==
    last.op = "generate_draw_order"
        => C1_WellNested(last.ret, children, last.arg)

\* A node with two children, one of which has a child of its own.
C1_Witness ==
    /\ last.op = "generate_draw_order"
    /\ Len(children[last.arg]) = 2
    /\ \E c \in Range(children[last.arg]) : children[c] # <<>>
    /\ Len(last.ret) = 8

\* ------------------------------------------------------------------- C2
\* The nodes of the scene tree.
SceneNodes == {scene} \cup Descendants(children, scene)

\* A node of the scene tree that is visible and has no invisible ancestor.
Drawable(n) ==
    /\ n \in SceneNodes
    /\ visible[n]
    /\ \A a \in Ancestors(children, n) \cap SceneNodes : visible[a]

\* C2: a draw pass in which no draw() raises calls draw() exactly once on
\* every visible node that has no invisible ancestor, and on no other node.
\* The code violates it on a scene without children: line 256 raises
\* IndexError before the walk and the visible root is never drawn.
C2_DrawsExactlyVisible ==
    (last.op = "draw_visual" /\ last.raised # "DrawError")
        => \A n \in Nodes :
              Count(last.drawn, n) = IF Drawable(n) THEN 1 ELSE 0

\* ------------------------------------------------------------------- C3
\* A step that adds a child to, or removes one from, a node of the scene tree.
SceneTopologyChanged ==
    \E p \in SceneNodes : children'[p] # children[p]

\* C3: a step that adds or removes a child in the scene tree leaves no
\* cached draw order, a draw_visual walks (and caches) the fresh traversal
\* of the current tree, and a scene update notification leaves the cache as
\* it is.  The code violates it for a scene assigned through the scene
\* setter, whose children_change notification is never connected.
C3_TopologyInvalidatesCache ==
    [][ /\ SceneTopologyChanged => draw_order' = EmptyCache
        /\ last'.op = "draw_visual"
              => draw_order'[last'.arg] = _generate_draw_order(children', scene')
        /\ last'.op = "scene_update" => draw_order' = draw_order ]_vars

\* ------------------------------------------------------------------- C4
\* A step that pops the push which was the last one not popped yet.
MatchingPop ==
    /\ pushes.ok
    /\ pushes'.ok
    /\ Len(pushes'.log) < Len(pushes.log)

\* C4: starting from empty stacks, the pop that matches the last successful
\* push not popped yet returns the entry that push pushed and leaves both
\* stacks with exactly the contents they had before that push; when every
\* push was popped in this way both stacks are empty.
C4_StackLIFO ==
    [][ /\ MatchingPop
           => /\ last'.raised = "none"
              /\ last'.ret = Last(pushes.log).entry
              /\ vp_stack' = Last(pushes.log).vp
              /\ fb_stack' = Last(pushes.log).fb
        /\ (pushes'.ok /\ pushes'.log = <<>>)
           => (vp_stack' = <<>> /\ fb_stack' = <<>>) ]_vars

\* A framebuffer pushed over a pushed viewport was popped again: the pop
\* returned the framebuffer entry and the stacks hold the viewport alone.
C4_Witness ==
    /\ last.op = "pop_fbo"
    /\ last.raised = "none"
    /\ last.ret[1] \in Fbos
    /\ pushes.ok
    /\ Len(pushes.log) = 1
    /\ pushes.log[1].kind = "viewport"
    /\ vp_stack = <<pushes.log[1].entry>>
    /\ fb_stack = <<>>

\* ------------------------------------------------------------------- C5
\* C5: a push_viewport whose set_viewport raises, and a push_fbo whose
\* activate raises or whose viewport push fails, raise to the caller and
\* leave the viewport stack and the framebuffer stack as they were.
C5_FailedPushRollsBack ==
    [][ (last'.op \in {"push_viewport", "push_fbo"} /\ last'.arg.fail)
           => /\ last'.raised = "ActivationError"
              /\ vp_stack' = vp_stack
              /\ fb_stack' = fb_stack ]_vars

\* A push_fbo whose layered viewport push failed, on stacks that held
\* entries already.
C5_Witness ==
    /\ last.op = "push_fbo"
    /\ last.arg.failViewport
    /\ ~last.arg.failActivate
    /\ last.raised = "ActivationError"
    /\ Len(vp_stack) = 1
    /\ Len(fb_stack) = 1

\* ------------------------------------------------------------------- C6
\* The rectangle (x, y, w, h) with non-negative extent.
C6_Normalized(v) ==
    <<IF v[3] < 0 THEN v[1] + v[3] ELSE v[1],
      IF v[4] < 0 THEN v[2] + v[4] ELSE v[2],
      IF v[3] < 0 THEN -v[3] ELSE v[3],
      IF v[4] < 0 THEN -v[4] ELSE v[4]>>

\* C6: push_viewport(x, y, w, h) passes to set_viewport, and on success
\* leaves on top of the stack, the viewport (x', y', w', h') with w' >= 0
\* and h' >= 0, x' = x + w and w' = -w if w < 0, y' = y + h and h' = -h if
\* h < 0, the other components unchanged.
C6_ViewportNormalized ==
    last.op = "push_viewport"
        => /\ last.cmds[1] = <<"set_viewport", C6_Normalized(last.arg.viewport)>>
           /\ last.cmds[1][2][3] >= 0
           /\ last.cmds[1][2][4] >= 0
           /\ last.raised = "none"
                 => Last(vp_stack) = C6_Normalized(last.arg.viewport)

\* (0, 0, -100, 50) was pushed as (-100, 0, 100, 50).
C6_Witness ==
    /\ last.op = "push_viewport"
    /\ last.raised = "none"
    /\ last.arg.viewport = <<0, 0, -100, 50>>
    /\ Last(vp_stack) = <<-100, 0, 100, 50>>
    /\ ctx.viewport = <<-100, 0, 100, 50>>

\* ------------------------------------------------------------------- C7
\* C7: render leaves the viewport stack and the framebuffer stack with the
\* contents they had when it was called, whether it returns the image, the
\* drawing or the read-back raises, or its push_fbo fails.
C7_RenderRestoresStacks ==
    [][ last'.op = "render"
           => (vp_stack' = vp_stack /\ fb_stack' = fb_stack) ]_vars

\* A render on non-empty stacks whose drawing raised after the framebuffer
\* was pushed and which popped it again.
C7_Witness ==
    /\ last.op = "render"
    /\ last.raised = "DrawError"
    /\ Len(vp_stack) = 2
    /\ Len(fb_stack) = 1
    /\ \E i \in 1..Len(last.cmds) : last.cmds[i][1] = "deactivate"

\* ------------------------------------------------------------------- C8
\* The visual registered under identifier id, None without one.
C8_Lookup(id) ==
    IF id \in {VisualIdOf(n) : n \in Registered} THEN id + OtherScene ELSE None

\* C8: a visual_at whose picking render returned the pixel (b0, b1, b2, b3)
\* decodes it as b0 + 256*b1 + 65536*b2 + 16777216*b3 and returns the visual
\* registered under that identifier, None when there is none.
C8_DecodesLittleEndian ==
    (last.op = "visual_at" /\ last.raised = "none")
        => LET b == last.arg.pixel
               id == b[1] + 256 * b[2] + 65536 * b[3] + 16777216 * b[4]
           IN  /\ Last(last.cmds) = <<"print", id>>
               /\ last.ret = C8_Lookup(id)

\* The pixel (4, 3, 2, 1) was decoded as 0x01020304, under which no visual
\* is registered.
C8_Witness ==
    /\ last.op = "visual_at"
    /\ last.raised = "none"
    /\ last.arg.pixel = <<4, 3, 2, 1>>
    /\ Last(last.cmds) = <<"print", 16909060>>
    /\ last.ret = None

\* ------------------------------------------------------------------- C9
\* C9: a press without capture latches the visual picked at its position;
\* with a capture active a move or release is routed to the captured
\* visual and the release clears the capture; a move, wheel or release
\* without capture is routed to no visual and captures nothing.  The code
\* violates it: every event first runs visual_at (line 298), and when that
\* picking pass raises the event is not routed and the release does not
\* clear the capture.
C9_MouseCapture ==
    [][ last'.op = "mouse_event"
           => /\ (mouse_handler = None /\ last'.arg.type = "mouse_press"
                     /\ last'.raised = "none")
                 => /\ last'.ret = C8_Lookup(last'.arg.pixel[1])
                    /\ mouse_handler' = last'.ret
              /\ (mouse_handler # None
                     /\ last'.arg.type \in {"mouse_move", "mouse_release"})
                 => last'.ret = mouse_handler
              /\ (mouse_handler # None /\ last'.arg.type = "mouse_move")
                 => mouse_handler' = mouse_handler
              /\ (mouse_handler # None /\ last'.arg.type = "mouse_release")
                 => mouse_handler' = None
              /\ (mouse_handler = None /\ last'.arg.type # "mouse_press")
                 => (last'.ret = None /\ mouse_handler' = None) ]_vars

\* ------------------------------------------------------------------ C10
\* The number of _attach(view) calls of filter in calls.
C10_Attaches(calls, filter, view) == Count(calls, <<"_attach", filter, view>>)

\* C10: attach(filter) appends filter to the filter list of the share and
\* calls filter._attach once on every live view of the share, the visual
\* itself included, and on nothing else; attach(filter, view) appends
\* filter to the filter list of view, calls filter._attach on view alone
\* and leaves the filter list of the share as it is.
C10_AttachSharedOrPerView ==
    [][ last'.op = "attach"
           => LET self == last'.arg.self
                  filter == last'.arg.filter
                  view == last'.arg.view
                  sh == vshare_of[self]
              IN  IF view = None
                  THEN /\ shared_filters' =
                             [shared_filters EXCEPT ![sh] = Append(@, filter)]
                       /\ own_filters' = own_filters
                       /\ self \in views[sh]
                       /\ Len(last'.cmds) = Cardinality(views[sh])
                       /\ \A o \in Objs :
                             IF o \in views[sh]
                             THEN /\ C10_Attaches(last'.cmds, filter, o) = 1
                                  /\ attached'[o] = Append(attached[o], filter)
                             ELSE attached'[o] = attached[o]
                  ELSE /\ shared_filters' = shared_filters
                       /\ own_filters' =
                             [own_filters EXCEPT ![view] = Append(@, filter)]
                       /\ last'.cmds = <<<<"_attach", filter, view>>>>
                       /\ attached' =
                             [attached EXCEPT ![view] = Append(@, filter)] ]_vars

\* A filter attached to one view alone of a share of two live views that
\* holds a shared filter: the view has both filters, the visual only the
\* shared one.
C10_Witness ==
    /\ last.op = "attach"
    /\ last.arg.view # None
    /\ last.arg.view # last.arg.self
    /\ vshare_of[last.arg.view] = vshare_of[last.arg.self]
    /\ Cardinality(views[vshare_of[last.arg.self]]) = 2
    /\ Len(shared_filters[vshare_of[last.arg.self]]) = 1
    /\ own_filters[last.arg.view] = <<last.arg.filter>>
    /\ own_filters[last.arg.self] = <<>>
    /\ Len(attached[last.arg.view]) = 2
    /\ attached[last.arg.self] = shared_filters[vshare_of[last.arg.self]]

\* ------------------------------------------------------------------ C11
\* A detach right after the attach of the same filter with the same target.
C11_DetachAfterAttach ==
    /\ last.op = "attach"
    /\ last'.op = "detach"
    /\ last'.arg.self = last.arg.self
    /\ last'.arg.filter = last.arg.filter
    /\ last'.arg.view = last.arg.view

\* C11: attach(filter, target) followed at once by detach(filter, target)
\* leaves the filter list of the share and the filter list of every view as
\* they were before the attach, and calls filter._detach exactly once on
\* every view filter._attach was called on, and on no other.  The code
\* violates it for a filter that is in the list already, before another
\* one: append adds the last occurrence, remove takes the first.
C11_DetachInvertsAttach ==
    [][ C11_DetachAfterAttach
           => /\ last'.raised = "none"
              /\ shared_filters' = last.arg.shared_before
              /\ own_filters' = last.arg.own_before
              /\ Len(last'.cmds) = Len(last.cmds)
              /\ \A o \in Objs :
                    Count(last'.cmds, <<"_detach", last.arg.filter, o>>)
                       = Count(last.cmds, <<"_attach", last.arg.filter, o>>) ]_vars

\* ------------------------------------------------------------------ C12
\* The list a detach looks the filter up in.
C12_TargetList(self, view) ==
    IF view = None THEN shared_filters[vshare_of[self]] ELSE own_filters[view]

\* C12: a detach of a filter that is not in the targeted list leaves the
\* filter list of every share and of every view, and the filters attached
\* to every view, as they were, and calls filter._detach on no view.
C12_DetachOfAbsentFilter ==
    [][ (last'.op = "detach"
            /\ last'.arg.filter \notin
                   Range(C12_TargetList(last'.arg.self, last'.arg.view)))
           => /\ shared_filters' = shared_filters
              /\ own_filters' = own_filters
              /\ attached' = attached
              /\ last'.cmds = <<>> ]_vars

\* A detach from a share of two views of a filter other than the one the
\* share holds: ValueError, nothing detached, both views keep their filter.
C12_Witness ==
    /\ last.op = "detach"
    /\ last.raised = "ValueError"
    /\ last.arg.view = None
    /\ last.cmds = <<>>
    /\ Cardinality(views[vshare_of[last.arg.self]]) = 2
    /\ Len(shared_filters[vshare_of[last.arg.self]]) = 1
    /\ \A o \in views[vshare_of[last.arg.self]] :
          attached[o] = shared_filters[vshare_of[last.arg.self]]

\* ------------------------------------------------------------------ C13
\* C13: o = v.view() has the VisualShare of v (so it is a key of the view
\* registry of v and the shared filter list of v is its shared filter
\* list), a TransformSystem of its own and an empty filter list of its own.
\* The code violates it for a compound v: CompoundVisualView.__init__ calls
\* CompoundVisual.__init__, which calls BaseVisual.__init__ without a
\* vshare, and the view gets a VisualShare of its own.
C13_ViewSharesBlock ==
    [][ last'.op = "view"
           => LET o == last'.arg.self
                  v == last'.arg.visual
              IN  /\ vshare_of'[o] = vshare_of[v]
                  /\ o \in views'[vshare_of[v]]
                  /\ shared_filters'[vshare_of'[o]] = shared_filters[vshare_of[v]]
                  /\ transforms_of'[o] = o
                  /\ \A p \in AllObjs \ ({o} \cup Range(subvisuals'[o])) :
                        transforms_of'[p] # o
                  /\ own_filters'[o] = <<>> ]_vars

\* ---------------------------------------------------------------- C14
\* The visible sub-visuals of compound c.
C14_VisibleSubs(c) == {v \in Range(subvisuals[c]) : sub_visible[v]}

\* C14: for a CompoundVisual and any axis, the computed bounds are the
\* minimum of the minima and the maximum of the maxima of the bounds of
\* exactly its visible sub-visuals, and none when no sub-visual is visible.
C14_BoundsUnion ==
    (last.op = "_compute_bounds" /\ class_of[last.arg.self] = "CompoundVisual")
        => /\ last.raised = "none"
           /\ LET V == C14_VisibleSubs(last.arg.self)
                  vb == last.arg.vb
              IN  IF V = {} THEN last.ret = None
                  ELSE last.ret =
                         <<CHOOSE m \in {vb[v][1] : v \in V} :
                               \A v \in V : m <= vb[v][1],
                           CHOOSE m \in {vb[v][2] : v \in V} :
                               \A v \in V : m >= vb[v][2]>>

\* ---------------------------------------------------------------- C15
\* C15: while a draw pass runs, no update or topology notification emitted
\* by the scene makes the canvas request a redraw; when no pass runs, the
\* scene's update notification makes the canvas request one.
C15_PassBlocksRedraw ==
    /\ (in_pass /\ last.op \in {"scene_update", "node"})
           => last.update = FALSE
    /\ (~in_pass /\ last.op = "scene_update") => last.update = TRUE

\* ---------------------------------------------------------------- C16
\* An update notification of the scene that was emitted during the pass and
\* did not reach the canvas.
C16_Suppressed ==
    in_pass /\ last.op = "scene_update" /\ last.update = FALSE

\* C16: a redraw request the scene issues during a draw pass is not lost:
\* after the pass completed, the canvas eventually requests a redraw.
C16_RedrawNotLost == C16_Suppressed ~> (~in_pass /\ last.update = TRUE)

\* ---------------------------------------------------------------- C17
\* draw_visual was called on a scene that consists of its root only.
C17_RootOnlyDrawn ==
    last.op = "draw_visual" /\ last.arg = scene /\ children[scene] = <<>>

\* C17: for a scene that is its root only, the draw order is (root, enter),
\* (root, exit) and draw_visual fails at no order entry: it draws the root
\* exactly once if the root is visible and not at all otherwise.
C17_RootOnlyScene ==
    C17_RootOnlyDrawn
        => /\ draw_order[scene] = <<<<scene, TRUE>>, <<scene, FALSE>>>>
           /\ last.raised # "IndexError"
           /\ Count(last.drawn, scene) = IF visible[scene] THEN 1 ELSE 0
           /\ Len(last.drawn) <= 1

\* ---------------------------------------------------------------- C18
\* The step sets a radius that is a list or tuple of a length other than 2,
\* or a num_segments below 1.
C18_InvalidSet ==
    \/ last'.op = "set_radius" /\ last'.arg.tuple /\ Len(last'.arg.val) # 2
    \/ last'.op = "set_num_segments" /\ last'.arg < 1

\* C18: setting an invalid radius or num_segments on an ellipse raises at
\* that call and applies nothing: the stored radius, the stored num_segments
\* and the vertex data are as before the call.
C18_InvalidSetRejected ==
    [][ C18_InvalidSet
           => /\ last'.raised = "ValueError"
              /\ ellipse'.radius = ellipse.radius
              /\ ellipse'.num_segments = ellipse.num_segments
              /\ ellipse'.vertices = ellipse.vertices ]_vars

\* ---------------------------------------------------------------- C19
\* C19: a draw() of a visual applies the shared GL state, calls
\* _prepare_draw with the visual as view, and then issues one geometry draw
\* with the shared draw mode and index buffer, unless _prepare_draw returned
\* False: then no geometry draw is issued.  The call changes nothing, so the
\* same holds of the draw() after one that was suppressed.
C19_DrawSequence ==
    [][ last'.op = "draw"
           => LET o == last'.arg.self
                  sh == vshare_of[o]
              IN  /\ Len(last'.cmds) >= 2
                  /\ last'.cmds[1] = <<"set_state", sh>>
                  /\ last'.cmds[2][1] = "_prepare_draw"
                  /\ last'.cmds[2][3] = o
                  /\ IF last'.ret = "False" THEN Len(last'.cmds) = 2
                     ELSE /\ Len(last'.cmds) = 3
                          /\ last'.cmds[3] = <<"draw", o, sh>>
                  /\ UNCHANGED visualVars ]_vars

\* A draw() whose _prepare_draw returned True, right after a draw() of the
\* same visual that was suppressed, issued the geometry draw.
C19_Witness ==
    /\ last.op = "draw"
    /\ last.arg.previous = "False"
    /\ last.ret = "True"
    /\ Len(last.cmds) = 3

\* ---------------------------------------------------------------- C20
\* C20: _prepare_transforms is called exactly once with a visual or a view
\* when it is created, and once again with it on every change of its
\* transform.
C20_PrepareTransforms ==
    /\ last.op = "Visual"
           => Count(last.cmds, <<"_prepare_transforms", last.arg>>) = 1
    /\ last.op = "view"
           => Count(last.cmds, <<"_prepare_transforms", last.arg.self>>) = 1
    /\ last.op = "set_transform"
           => Count(last.cmds, <<"_prepare_transforms", last.arg>>) = 1

\* ---------------------------------------------------------------- C21
\* The commands a handler issued to the context.
C21_ContextCmds(cmds) ==
    SelectSeq(cmds, LAMBDA c : c[1] \notin {"picking", "print"})

\* C21: on_draw, render, draw_visual and visual_at make the context of the
\* canvas current before they issue any command to it.
C21_SetCurrentFirst ==
    last.op \in {"on_draw", "render", "draw_visual", "visual_at"}
        => LET cs == C21_ContextCmds(last.cmds)
           IN  cs # <<>> /\ cs[1] = <<"set_current">>

\* ---------------------------------------------------------------- C22
\* The nodes that are open when node n is entered in the order.
C22_Open(order, n) ==
    {a \in Nodes \ {n} :
        /\ <<a, TRUE>> \in Range(order)
        /\ PosIn(order, a, TRUE) < PosIn(order, n, TRUE)
        /\ PosIn(order, n, TRUE) < PosIn(order, a, FALSE)}

\* C22: in a draw pass the barrier is held by the outermost invisible node
\* of the path from its enter to its exit, whatever invisible nodes are
\* nested in its subtree: a node is drawn, once, exactly when it is visible
\* and no node open at its enter is invisible; when the pass is over the
\* barrier and the stack of open nodes are empty.
C22_NestedInvisibility ==
    (last.op = "draw_visual" /\ last.raised = "none")
        => LET order == draw_order[last.arg]
           IN  /\ last.ret.invisible_node = None
               /\ last.ret.stack = <<>>
               /\ \A n \in Nodes :
                     Count(last.drawn, n) =
                        IF /\ <<n, TRUE>> \in Range(order)
                           /\ visible[n]
                           /\ \A a \in C22_Open(order, n) : visible[a]
                        THEN 1 ELSE 0

\* A pass over an invisible scene whose first child is invisible too and
\* is followed by a visible child: nothing was drawn.
C22_Witness ==
    /\ last.op = "draw_visual"
    /\ last.raised = "none"
    /\ Len(children[scene]) = 2
    /\ ~visible[scene]
    /\ ~visible[children[scene][1]]
    /\ visible[children[scene][2]]
    /\ last.drawn = <<>>

\* ---------------------------------------------------------------- C23
\* C23: after every push_fbo and pop_fbo, failed pushes included, the
\* framebuffer that is activated is the one on top of the framebuffer
\* stack, and none when the stack is empty.
C23_TopFboActive ==
    last.op \in {"push_fbo", "pop_fbo"}
        => ctx.fbo = IF fb_stack = <<>> THEN None ELSE Last(fb_stack)[1].id

\* ---------------------------------------------------------------- C24
\* The step is a stack handler or the resize handler that returned.
C24_Completed ==
    /\ last'.op \in {"push_viewport", "pop_viewport", "push_fbo", "pop_fbo",
                     "resize"}
    /\ last'.raised = "none"

\* C24: after every push_viewport, pop_viewport, push_fbo, pop_fbo and
\* resize that completes, the viewport last set on the context is the top
\* of the viewport stack, or the whole physical canvas when the stack is
\* empty; pop_viewport returns the entry it removed.
C24_ViewportIsTop ==
    [][ C24_Completed
           => /\ ctx'.viewport =
                    IF vp_stack' = <<>>
                    THEN <<0, 0, canvas_size'[1], canvas_size'[2]>>
                    ELSE Last(vp_stack')
              /\ last'.op = "pop_viewport"
                    => /\ last'.ret = Last(vp_stack)
                       /\ vp_stack' = Front(vp_stack) ]_vars

\* The last viewport was popped from a canvas that had been resized.
C24_Witness ==
    /\ last.op = "pop_viewport"
    /\ last.raised = "none"
    /\ vp_stack = <<>>
    /\ canvas_size # CanvasSize
    /\ ctx.viewport = <<0, 0, canvas_size[1], canvas_size[2]>>

\* ---------------------------------------------------------------- C25
\* The auto_configure arguments that match the stacks.
C25_Matching(vps, fbs) ==
    [viewport |-> IF vps = <<>> THEN NoVP ELSE Last(vps),
     fbo_size |-> IF fbs = <<>> THEN NoVP ELSE Last(fbs)[3],
     fbo_rect |-> IF fbs = <<>> THEN NoVP ELSE Last(fbs)[2] \o Last(fbs)[3]]

\* C25: after every push_viewport, pop_viewport, push_fbo, pop_fbo and
\* resize that completes, the last auto_configure call had the top of the
\* viewport stack as viewport and the size and rectangle of the top of the
\* framebuffer stack (none for an empty stack); a push that fails leaves
\* the stacks and the configuration as they were.
C25_TransformsFollowStacks ==
    [][ /\ C24_Completed => tconf' = C25_Matching(vp_stack', fb_stack')
        /\ (last'.op \in {"push_viewport", "push_fbo"}
                /\ last'.raised # "none")
              => /\ tconf' = tconf
                 /\ vp_stack' = vp_stack
                 /\ fb_stack' = fb_stack ]_vars

\* A framebuffer was pushed on top of another one and the configuration
\* has its size and rectangle.
C25_Witness ==
    /\ last.op = "push_fbo"
    /\ last.raised = "none"
    /\ Len(fb_stack) = 2
    /\ tconf.fbo_size = Last(fb_stack)[3]
    /\ tconf.viewport = Last(vp_stack)

\* ---------------------------------------------------------------- C26
\* The positions in cmds of the commands of the render pass.
C26_RenderCmds(cmds) ==
    {i \in 1..Len(cmds) : cmds[i][1] \notin {"picking", "print"}}

\* C26: visual_at sets the picking flag of the scene before its render
\* pass and resets it after the pass, whether the pass returned or raised,
\* and leaves both stacks as they were before the call.
C26_PickingFlagScoped ==
    [][ last'.op = "visual_at"
           => LET cs == last'.cmds
                  off == IndexOf(cs, <<"picking", FALSE>>)
              IN  /\ cs[1] = <<"picking", TRUE>>
                  /\ Count(cs, <<"picking", TRUE>>) = 1
                  /\ Count(cs, <<"picking", FALSE>>) = 1
                  /\ C26_RenderCmds(cs) # {}
                  /\ \A i \in C26_RenderCmds(cs) : 1 < i /\ i < off
                  /\ vp_stack' = vp_stack
                  /\ fb_stack' = fb_stack ]_vars

\* A picking pass on a pushed framebuffer raised; the flag was reset.
C26_Witness ==
    /\ last.op = "visual_at"
    /\ last.raised # "none"
    /\ fb_stack # <<>>
    /\ Last(last.cmds) = <<"picking", FALSE>>

\* ---------------------------------------------------------------- C27
\* C27: draw_visual(v) caches under v the enter/exit order of the subtree
\* of v and draws no node outside that subtree.
C27_DrawsSubtree ==
    (last.op = "draw_visual" /\ last.raised = "none")
        => LET v == last.arg
           IN  /\ draw_order[v] = _generate_draw_order(children, v)
               /\ Range(last.drawn) \subseteq {v} \cup Descendants(children, v)

\* ---------------------------------------------------------------- C28
\* C28: when a view is drawn, the _prepare_draw of the viewed visual is
\* called with the view, and if it returns False no geometry draw is issued
\* for the view.
C28_ViewDrawSuppressed ==
    (last.op = "draw" /\ visual_of[last.arg.self] # None)
        => LET o == last.arg.self
           IN  /\ <<"_prepare_draw", visual_of[o], o>> \in Range(last.cmds)
               /\ last.arg.prepare = "False"
                     => \A i \in 1..Len(last.cmds) : last.cmds[i][1] # "draw"

\* ---------------------------------------------------------------- C29
\* C29: with attach and detach called without a view, on a visual or on
\* any of its views, every view in the registry of a share has each filter
\* attached as many times as the shared filter list holds it: all of the
\* list, views made after the attach included, and nothing else.
C29_SharedFiltersOnAllViews ==
    \A sh \in Objs : \A o \in views[sh] : \A f \in Filters :
        Count(attached[o], f) = Count(shared_filters[sh], f)

\* A filter was detached through a view while another filter stays shared
\* by the visual and the view.
C29_Witness ==
    /\ last.op = "detach"
    /\ last.raised = "none"
    /\ visual_of[last.arg.self] # None
    /\ shared_filters[vshare_of[last.arg.self]] # <<>>
    /\ Cardinality(views[vshare_of[last.arg.self]]) = 2

\* ---------------------------------------------------------------- C30
\* C30: remove_subvisual(v), for a sub-visual v of the compound, takes v
\* off the sub-visual list of the compound, leaves the other sub-visuals in
\* their order, and emits an update notification of the compound.
C30_RemoveSubvisual ==
    [][ last'.op = "remove_subvisual"
           => LET c == last'.arg.self
                  v == last'.arg.visual
              IN  /\ last'.raised = "none"
                  /\ subvisuals'[c] = ListRemove(subvisuals[c], v)
                  /\ <<"update", c>> \in Range(last'.cmds) ]_vars

================================================================================
